---- MODULE Spec2Model ----
(***************************************************************************)
(* A model of the FrankenKiro simulation core: grid collision, raycasting, *)
(* the enemy state machine, the game loop, the player, the frame update    *)
(* and the menu of the game container, saving and restoring, the input     *)
(* handler, and the projection of sprites.                                 *)
(*                                                                         *)
(* Numbers.  The source computes in IEEE doubles.  Here every length is a  *)
(* fixed-point integer counted in 1/Scale of a grid cell (Scale = 1000, so *)
(* the source's epsilon 0.001 is 1).  Math.floor is \div Scale, Math.sqrt  *)
(* is the integer square root, and a quotient that is not representable is *)
(* rounded to the nearest unit.  Comparisons the source makes between      *)
(* quantities that are exact in this representation stay exact.            *)
(***************************************************************************)
EXTENDS Integers, Sequences, FiniteSets, TLC

\* Units per grid cell of the fixed-point representation of `number`.
Scale == 1000

----------------------------------------------------------------------------
(* Arithmetic helpers *)

Abs(a) == IF a < 0 THEN -a ELSE a

Max(a, b) == IF a > b THEN a ELSE b

Min(a, b) == IF a < b THEN a ELSE b

\* Math.floor of a fixed-point number, as a cell index.
Floor(a) == a \div Scale

\* a / b rounded to the nearest integer, b > 0.
RDiv(a, b) == IF a >= 0 THEN (2 * a + b) \div (2 * b) ELSE -((2 * (-a) + b) \div (2 * b))

\* The element of a one-element set. A value that is used many times is
\* named by a variable bound over such a set, which computes it once.
Only(S) == CHOOSE x \in S : TRUE

RECURSIVE SqrtIter(_, _, _)
SqrtIter(n, lo, hi) ==
  IF lo >= hi THEN lo
  ELSE Only({IF mid * mid <= n THEN SqrtIter(n, mid, hi) ELSE SqrtIter(n, lo, mid - 1) :
             mid \in {(lo + hi + 1) \div 2}})

\* Math.sqrt: the largest k with k * k <= n.
Sqrt(n) == SqrtIter(n, 0, Min(n, 46340))

\* Math.sqrt(x * x + y * y), which lies between max(|x|, |y|) and |x| + |y|.
Hypot(x, y) == SqrtIter(x * x + y * y, Max(Abs(x), Abs(y)), Min(Abs(x) + Abs(y), 46340))

----------------------------------------------------------------------------
(* vector2.ts *)

vec2(x, y) == [x |-> x, y |-> y]

add(a, b) == [x |-> a.x + b.x, y |-> a.y + b.y]

subtract(a, b) == [x |-> a.x - b.x, y |-> a.y - b.y]

\* v * scalar, the scalar being a fixed-point number too.
multiply(v, scalar) == [x |-> RDiv(v.x * scalar, Scale), y |-> RDiv(v.y * scalar, Scale)]

length(v) == Hypot(v.x, v.y)

\* v / length(v).  A short vector is scaled up first so that the rounding of
\* its length does not bend the direction.
normalize(v) ==
  IF v.x = 0 /\ v.y = 0 THEN vec2(0, 0)
  ELSE LET k == IF Abs(v.x) < 600 /\ Abs(v.y) < 600 THEN 50 ELSE 1
           w == vec2(k * v.x, k * v.y)
       IN Only({vec2(RDiv(w.x * Scale, len), RDiv(w.y * Scale, len)) : len \in {length(w)}})

distance(a, b) == length(subtract(b, a))

----------------------------------------------------------------------------
(* Levels *)

\* The level maps the pure functions are exercised on: out-of-bounds cells
\* are implicit walls, so none needs a border.
TestLevels ==
  << [width |-> 2, height |-> 2, grid |-> << <<0, 0>>,
                                             <<0, 1>> >>],
     [width |-> 2, height |-> 2, grid |-> << <<0, 2>>,
                                             <<1, 0>> >>] >>

----------------------------------------------------------------------------
(* collision.ts *)

DEFAULT_ENTITY_RADIUS == 300

\* x and y are fixed-point coordinates; a grid cell is addressed by its
\* corner.
isWall(x, y, level) ==
  IF x < 0 \/ x >= level.width * Scale \/ y < 0 \/ y >= level.height * Scale THEN TRUE
  ELSE level.grid[Floor(y) + 1][Floor(x) + 1] # 0

getTile(x, y, level) ==
  IF x < 0 \/ x >= level.width * Scale \/ y < 0 \/ y >= level.height * Scale THEN 1
  ELSE level.grid[Floor(y) + 1][Floor(x) + 1]

\* The body of the two for-loops of checkWallCollision for one cell.
WallCell(position, radius, level, gridX, gridY, acc) ==
  IF ~isWall(gridX * Scale, gridY * Scale, level) THEN acc
  ELSE LET closestX == Max(gridX * Scale, Min(position.x, (gridX + 1) * Scale))
           closestY == Max(gridY * Scale, Min(position.y, (gridY + 1) * Scale))
           diff == subtract(position, vec2(closestX, closestY))
           dx == position.x - (gridX * Scale + Scale \div 2)
           dy == position.y - (gridY * Scale + Scale \div 2)
       IN Only({IF ~(dist < radius) THEN acc
                ELSE [collided |-> TRUE,
                      maxPenetration |-> Max(acc.maxPenetration, radius - dist),
                      totalNormal |->
                        IF diff.x # 0 \/ diff.y # 0
                        THEN add(acc.totalNormal, multiply(normalize(diff), radius - dist))
                        ELSE IF Abs(dx) > Abs(dy)
                             THEN add(acc.totalNormal, vec2(IF dx > 0 THEN Scale ELSE -Scale, 0))
                             ELSE add(acc.totalNormal, vec2(0, IF dy > 0 THEN Scale ELSE -Scale))] :
                dist \in {length(diff)}})

RECURSIVE WallLoop(_, _, _, _, _, _, _, _, _)
WallLoop(position, radius, level, gridX, gridY, minX, maxX, maxY, acc) ==
  IF gridY > maxY THEN acc
  ELSE IF gridX > maxX
       THEN WallLoop(position, radius, level, minX, gridY + 1, minX, maxX, maxY, acc)
       ELSE Only({WallLoop(position, radius, level, gridX + 1, gridY, minX, maxX, maxY, next) :
                  next \in {WallCell(position, radius, level, gridX, gridY, acc)}})

\* The loops and the result of checkWallCollision over the cells
\* minX..maxX by minY..maxY.
CheckCells(position, radius, level, minX, maxX, minY, maxY) ==
  Only({[collided |-> acc.collided,
         normal |-> normalize(acc.totalNormal),
         penetration |-> acc.maxPenetration] :
        acc \in {WallLoop(position, radius, level, minX, minY, minX, maxX, maxY,
                          [collided |-> FALSE, totalNormal |-> vec2(0, 0),
                           maxPenetration |-> 0])}})

\* checkWallCollision looking only at the cells up to the one of the centre.
checkWallCollisionNoUpperBox(position, radius, level) ==
  CheckCells(position, radius, level,
             Floor(position.x - radius), Floor(position.x),
             Floor(position.y - radius), Floor(position.y))

checkWallCollision(position, radius, level) ==
  CheckCells(position, radius, level,
             Floor(position.x - radius), Floor(position.x + radius),
             Floor(position.y - radius), Floor(position.y + radius))

resolveWallCollision(position, result) ==
  IF ~result.collided THEN position
  ELSE add(position, multiply(result.normal, result.penetration + 1))

\* moveWithCollision without its second check of the resolved position.
MoveOutcomeNoSecondCheck(currentPosition, desiredPosition, radius, level) ==
  Only({IF ~collision.collided THEN [pos |-> desiredPosition, via |-> "direct"]
        ELSE [pos |-> resolveWallCollision(desiredPosition, collision), via |-> "resolved"] :
        collision \in {checkWallCollision(desiredPosition, radius, level)}})

\* moveWithCollision trying the Y-only slide before the X-only one.
MoveOutcomeYFirst(currentPosition, desiredPosition, radius, level) ==
  LET xOnly == vec2(desiredPosition.x, currentPosition.y)
      yOnly == vec2(currentPosition.x, desiredPosition.y)
  IN Only({IF ~collision.collided THEN [pos |-> desiredPosition, via |-> "direct"]
           ELSE Only({IF ~checkWallCollision(newPosition, radius, level).collided
                      THEN [pos |-> newPosition, via |-> "resolved"]
                      ELSE IF ~checkWallCollision(yOnly, radius, level).collided
                           THEN [pos |-> yOnly, via |-> "yOnly"]
                      ELSE IF ~checkWallCollision(xOnly, radius, level).collided
                           THEN [pos |-> xOnly, via |-> "xOnly"]
                      ELSE [pos |-> currentPosition, via |-> "stay"] :
                      newPosition \in {resolveWallCollision(desiredPosition, collision)}}) :
           collision \in {checkWallCollision(desiredPosition, radius, level)}})

\* moveWithCollision taking the X-only slide without checking it.
MoveOutcomeUncheckedSlide(currentPosition, desiredPosition, radius, level) ==
  Only({IF ~collision.collided THEN [pos |-> desiredPosition, via |-> "direct"]
        ELSE Only({IF ~checkWallCollision(newPosition, radius, level).collided
                   THEN [pos |-> newPosition, via |-> "resolved"]
                   ELSE [pos |-> vec2(desiredPosition.x, currentPosition.y),
                         via |-> "xOnly"] :
                   newPosition \in {resolveWallCollision(desiredPosition, collision)}}) :
        collision \in {checkWallCollision(desiredPosition, radius, level)}})

\* moveWithCollision, returning the position together with the return
\* statement that produced it.
MoveOutcome(currentPosition, desiredPosition, radius, level) ==
  LET xOnly == vec2(desiredPosition.x, currentPosition.y)
      yOnly == vec2(currentPosition.x, desiredPosition.y)
  IN Only({IF ~collision.collided THEN [pos |-> desiredPosition, via |-> "direct"]
           ELSE Only({IF ~checkWallCollision(newPosition, radius, level).collided
                      THEN [pos |-> newPosition, via |-> "resolved"]
                      ELSE IF ~checkWallCollision(xOnly, radius, level).collided
                           THEN [pos |-> xOnly, via |-> "xOnly"]
                      ELSE IF ~checkWallCollision(yOnly, radius, level).collided
                           THEN [pos |-> yOnly, via |-> "yOnly"]
                      ELSE [pos |-> currentPosition, via |-> "stay"] :
                      newPosition \in {resolveWallCollision(desiredPosition, collision)}}) :
           collision \in {checkWallCollision(desiredPosition, radius, level)}})

moveWithCollision(currentPosition, desiredPosition, radius, level) ==
  MoveOutcome(currentPosition, desiredPosition, radius, level).pos

----------------------------------------------------------------------------
(* engine/collision.ts: raycast *)

\* A value above every distance that occurs; stands for 1e10 and Infinity.
Infinity == 2000000000

\* Math.abs(d) < 0.0001 for the component d of the unit vector of a
\* direction whose length is len.
Tiny(d, len) == Abs(d) * 10000 < len

\* (offset to the next grid line) * deltaDist: the distance along the ray to
\* the grid line lying n away on one axis, the ray advancing Abs(d) on that
\* axis for every len it travels.
SideDist(n, d, len) ==
  IF Tiny(d, len) THEN (IF n = 0 THEN 0 ELSE Infinity)
  ELSE RDiv(n * len, Abs(d))

\* sideDistX < sideDistY; two finite sides are compared without rounding.
SideLess(nX, dX, nY, dY, len) ==
  IF Tiny(dX, len) \/ Tiny(dY, len)
  THEN SideDist(nX, dX, len) < SideDist(nY, dY, len)
  ELSE nX * Abs(dY) < nY * Abs(dX)

\* The jump to the next map square. The state s holds mapX, mapY, the
\* offsets nX, nY of the next grid line on each axis, side and distance.
DDAStep(s, dX, dY, len) ==
  IF SideLess(s.nX, dX, s.nY, dY, len)
  THEN [s EXCEPT !.distance = SideDist(s.nX, dX, len), !.nX = @ + Scale,
                 !.mapX = @ + (IF dX < 0 THEN -1 ELSE 1), !.side = "vertical"]
  ELSE [s EXCEPT !.distance = SideDist(s.nY, dY, len), !.nY = @ + Scale,
                 !.mapY = @ + (IF dY < 0 THEN -1 ELSE 1), !.side = "horizontal"]

\* The result of raycast when no wall was hit (null).
NoHit == [hit |-> FALSE, position |-> vec2(0, 0), distance |-> 0, normal |-> vec2(0, 0)]

RECURSIVE RaycastLoop(_, _, _, _, _, _, _)
RaycastLoop(s, origin, dX, dY, len, maxDistance, level) ==
  IF s.distance < maxDistance
  THEN Only({IF isWall(t.mapX * Scale, t.mapY * Scale, level)
             THEN [hit |-> TRUE,
                   position |-> vec2(origin.x + RDiv(dX * t.distance, len),
                                     origin.y + RDiv(dY * t.distance, len)),
                   distance |-> t.distance,
                   normal |-> IF t.side = "vertical"
                              THEN vec2(IF dX < 0 THEN Scale ELSE -Scale, 0)
                              ELSE vec2(0, IF dY < 0 THEN Scale ELSE -Scale)]
             ELSE RaycastLoop(t, origin, dX, dY, len, maxDistance, level) :
             t \in {DDAStep(s, dX, dY, len)}})
  ELSE NoHit

\* raycast normalises its direction itself, so the direction is given here
\* as any vector pointing that way and is used with its length len.
raycast(origin, direction, maxDistance, level) ==
  Only({IF len = 0 \/ (Tiny(direction.x, len) /\ Tiny(direction.y, len)) THEN NoHit
        ELSE RaycastLoop(
               [mapX |-> Floor(origin.x), mapY |-> Floor(origin.y),
                nX |-> IF direction.x < 0 THEN origin.x - Floor(origin.x) * Scale
                       ELSE (Floor(origin.x) + 1) * Scale - origin.x,
                nY |-> IF direction.y < 0 THEN origin.y - Floor(origin.y) * Scale
                       ELSE (Floor(origin.y) + 1) * Scale - origin.y,
                side |-> "horizontal", distance |-> 0],
               origin, direction.x, direction.y, len, maxDistance, level) :
        len \in {length(direction)}})

----------------------------------------------------------------------------
(* engine raycaster: castRay, castAllRays *)

\* Angles are held in hundredths of a degree; FullTurn is 2 * Math.PI.
FullTurn == 36000
HalfTurn == FullTurn \div 2

\* Math.sin on 0 .. HalfTurn in thousandths (Bhaskara's rational
\* approximation, exact at 0, 30, 90, 150 and 180 degrees).
SinHalf(d) ==
  LET p == d * (HalfTurn - d)
  IN RDiv(4 * p, RDiv(405000000 - p, Scale))

Sin(angle) ==
  LET d == angle % FullTurn
  IN IF d <= HalfTurn THEN SinHalf(d) ELSE -SinHalf(d - HalfTurn)

Cos(angle) == Sin(angle + FullTurn \div 4)

DEFAULT_RAYCAST_CONFIG ==
  [screenWidth |-> 640, screenHeight |-> 480, fov |-> FullTurn \div 6,
   maxRenderDistance |-> 20 * Scale]

\* 0.0001 lies below the resolution of the representation; it is held as
\* the smallest positive distance, which no positive distance of a ray
\* falls below.
MIN_DISTANCE == 1

isWallTile(x, y, levelMap) ==
  IF x < 0 \/ x >= levelMap.width \/ y < 0 \/ y >= levelMap.height THEN TRUE
  ELSE levelMap.grid[y + 1][x + 1] > 0

getTileValue(x, y, levelMap) ==
  IF x < 0 \/ x >= levelMap.width \/ y < 0 \/ y >= levelMap.height THEN 1
  ELSE levelMap.grid[y + 1][x + 1]

\* offset * deltaDist with deltaDist == Infinity for a zero component and
\* Math.abs(1 / rayDir) otherwise.
RaySideDist(n, rayDir) ==
  IF rayDir = 0 THEN Infinity ELSE RDiv(n * Scale, Abs(rayDir))

\* sideDistX < sideDistY; two finite sides are compared without rounding.
RaySideLess(nX, rayDirX, nY, rayDirY) ==
  IF rayDirX = 0 THEN FALSE
  ELSE IF rayDirY = 0 THEN TRUE
  ELSE nX * Abs(rayDirY) < nY * Abs(rayDirX)

\* One iteration of the DDA loop of castRay. The state s holds mapX, mapY,
\* the offsets nX, nY of the next grid line on each axis, side, distance and
\* hit.
CastStep(s, rayDirX, rayDirY, levelMap) ==
  LET t == IF RaySideLess(s.nX, rayDirX, s.nY, rayDirY)
           THEN [s EXCEPT !.distance = RaySideDist(s.nX, rayDirX),
                          !.nX = @ + Scale,
                          !.mapX = @ + (IF rayDirX < 0 THEN -1 ELSE 1),
                          !.side = "vertical"]
           ELSE [s EXCEPT !.distance = RaySideDist(s.nY, rayDirY),
                          !.nY = @ + Scale,
                          !.mapY = @ + (IF rayDirY < 0 THEN -1 ELSE 1),
                          !.side = "horizontal"]
  IN [t EXCEPT !.hit = isWallTile(t.mapX, t.mapY, levelMap)]

RECURSIVE CastLoop(_, _, _, _, _)
CastLoop(s, rayDirX, rayDirY, levelMap, maxDistance) ==
  IF ~s.hit /\ s.distance < maxDistance
  THEN Only({CastLoop(t, rayDirX, rayDirY, levelMap, maxDistance) :
             t \in {CastStep(s, rayDirX, rayDirY, levelMap)}})
  ELSE s

\* The final state of the DDA of castRay.
CastDDA(origin, angle, levelMap, maxDistance) ==
  LET mapX == Floor(origin.x)
      mapY == Floor(origin.y)
  IN Only({CastLoop([mapX |-> mapX, mapY |-> mapY,
                     nX |-> IF rayDirX < 0 THEN origin.x - mapX * Scale
                            ELSE (mapX + 1) * Scale - origin.x,
                     nY |-> IF rayDirY < 0 THEN origin.y - mapY * Scale
                            ELSE (mapY + 1) * Scale - origin.y,
                     side |-> "vertical", distance |-> 0, hit |-> FALSE],
                    rayDirX, rayDirY, levelMap, maxDistance) :
           rayDirX \in {Cos(angle)}, rayDirY \in {Sin(angle)}})

castRay(origin, angle, levelMap, maxDistance) ==
  Only({[angle |-> angle,
         distance |-> Max(s.distance, MIN_DISTANCE),
         wallHit |-> vec2(origin.x + RDiv(Cos(angle) * s.distance, Scale),
                          origin.y + RDiv(Sin(angle) * s.distance, Scale)),
         wallType |-> IF s.hit THEN getTileValue(s.mapX, s.mapY, levelMap) ELSE 0,
         side |-> s.side] :
        s \in {CastDDA(origin, angle, levelMap, maxDistance)}})

\* The angle of screen column x (from 0): playerRotation + (x / screenWidth - 0.5) * fov.
RayAngle(playerRotation, x, config) ==
  playerRotation + RDiv((2 * x - config.screenWidth) * config.fov, 2 * config.screenWidth)

\* A castAllRays that keeps only the rays that hit a wall.
castAllRaysHitsOnly(playerPosition, playerRotation, config, levelMap) ==
  SelectSeq([i \in 1 .. config.screenWidth |->
               castRay(playerPosition, RayAngle(playerRotation, i - 1, config), levelMap,
                       config.maxRenderDistance)],
            LAMBDA ray : ray.wallType # 0)

castAllRays(playerPosition, playerRotation, config, levelMap) ==
  [i \in 1 .. config.screenWidth |->
     castRay(playerPosition, RayAngle(playerRotation, i - 1, config), levelMap,
             config.maxRenderDistance)]

----------------------------------------------------------------------------
(* game/enemy.ts *)

\* distance(a, b) <= r and distance(a, b) < r, decided on the squares so
\* that the rounding of the square root plays no part.
DistLE(a, b, r) ==
  r >= 0 /\ (b.x - a.x) * (b.x - a.x) + (b.y - a.y) * (b.y - a.y) <= r * r

DistLT(a, b, r) ==
  r > 0 /\ (b.x - a.x) * (b.x - a.x) + (b.y - a.y) * (b.y - a.y) < r * r

\* Math.atan on 0 .. 1 (argument in thousandths, result in hundredths of a
\* degree): 45 z + 15.64 z (1 - z) degrees.
AtanUnit(z) == RDiv(4500 * z, Scale) + RDiv(1564 * z * (Scale - z), Scale * Scale)

\* Math.atan2, with results in -HalfTurn + 1 .. HalfTurn.
Atan2(y, x) ==
  IF x = 0 /\ y = 0 THEN 0
  ELSE LET ax == Abs(x)
           ay == Abs(y)
           base == IF ax >= ay THEN AtanUnit(RDiv(ay * Scale, ax))
                   ELSE FullTurn \div 4 - AtanUnit(RDiv(ax * Scale, ay))
       IN IF x >= 0 THEN (IF y >= 0 THEN base ELSE -base)
          ELSE (IF y >= 0 THEN HalfTurn - base ELSE base - HalfTurn)

\* speed and the ranges are in thousandths of a cell; deltaTime is in
\* milliseconds.
DEFAULT_ENEMY_CONFIG ==
  [health |-> 50, maxHealth |-> 50, damage |-> 10, speed |-> 1500,
   attackRange |-> 1500, detectionRange |-> 8000, pointValue |-> 100,
   radius |-> 300]

createEnemy(id, position, spriteId, mergedConfig) ==
  [id |-> id, position |-> position, rotation |-> 0,
   health |-> mergedConfig.health, maxHealth |-> mergedConfig.maxHealth,
   damage |-> mergedConfig.damage, speed |-> mergedConfig.speed,
   attackRange |-> mergedConfig.attackRange,
   detectionRange |-> mergedConfig.detectionRange,
   state |-> "idle", spriteId |-> spriteId,
   pointValue |-> mergedConfig.pointValue]

canSeePlayer(enemy, player, level) ==
  IF enemy.state = "dead" THEN FALSE
  ELSE IF ~DistLE(enemy.position, player.position, enemy.detectionRange) THEN FALSE
  ELSE IF DistLT(enemy.position, player.position, 100) THEN TRUE
  ELSE \E toPlayer \in {subtract(player.position, enemy.position)},
          dist \in {distance(enemy.position, player.position)} :
         \E hit \in {raycast(enemy.position, toPlayer, dist + 100, level)} :
           ~hit.hit \/ hit.distance >= dist - 100

getDirectionToPlayer(enemy, player) ==
  normalize(subtract(player.position, enemy.position))

determineNextStateStrictRange(enemy, player, level) ==
  IF enemy.state = "dead" \/ enemy.health <= 0 THEN "dead"
  ELSE IF canSeePlayer(enemy, player, level)
       THEN IF DistLT(enemy.position, player.position, enemy.attackRange)
            THEN "attacking" ELSE "pursuing"
       ELSE "idle"

determineNextState(enemy, player, level) ==
  IF enemy.state = "dead" \/ enemy.health <= 0 THEN "dead"
  ELSE IF canSeePlayer(enemy, player, level)
       THEN IF DistLE(enemy.position, player.position, enemy.attackRange)
            THEN "attacking" ELSE "pursuing"
       ELSE "idle"

\* A moveTowardPlayer that moves the dead as well.
moveTowardPlayerAnyState(enemy, player, deltaTime, level) ==
  Only({LET movement == multiply(direction, RDiv(enemy.speed * deltaTime, 1000))
            desiredPosition == add(enemy.position, movement)
            newPosition == moveWithCollision(enemy.position, desiredPosition,
                                             DEFAULT_ENEMY_CONFIG.radius, level)
        IN [enemy EXCEPT !.position = newPosition,
                         !.rotation = Atan2(direction.y, direction.x)] :
        direction \in {getDirectionToPlayer(enemy, player)}})

moveTowardPlayer(enemy, player, deltaTime, level) ==
  IF enemy.state = "dead" THEN enemy
  ELSE Only({LET movement == multiply(direction, RDiv(enemy.speed * deltaTime, 1000))
                 desiredPosition == add(enemy.position, movement)
                 newPosition == moveWithCollision(enemy.position, desiredPosition,
                                                  DEFAULT_ENEMY_CONFIG.radius, level)
             IN [enemy EXCEPT !.position = newPosition,
                              !.rotation = Atan2(direction.y, direction.x)] :
             direction \in {getDirectionToPlayer(enemy, player)}})

takeDamageUnclamped(enemy, amount) ==
  IF amount < 0 \/ enemy.state = "dead" THEN enemy
  ELSE LET newHealth == enemy.health - amount
       IN [enemy EXCEPT !.health = newHealth,
                        !.state = IF newHealth <= 0 THEN "dead" ELSE @]

takeDamage(enemy, amount) ==
  IF amount < 0 \/ enemy.state = "dead" THEN enemy
  ELSE LET newHealth == Max(0, enemy.health - amount)
       IN [enemy EXCEPT !.health = newHealth,
                        !.state = IF newHealth <= 0 THEN "dead" ELSE @]

isDead(enemy) == enemy.state = "dead" \/ enemy.health <= 0

isInAttackRange(enemy, player) ==
  DistLE(enemy.position, player.position, enemy.attackRange)

performAttackAnyRange(enemy, player) ==
  IF enemy.state = "dead" THEN [attacked |-> FALSE, damage |-> 0]
  ELSE IF enemy.state # "attacking" THEN [attacked |-> FALSE, damage |-> 0]
  ELSE [attacked |-> TRUE, damage |-> enemy.damage]

performAttack(enemy, player) ==
  IF enemy.state = "dead" THEN [attacked |-> FALSE, damage |-> 0]
  ELSE IF enemy.state # "attacking" \/ ~isInAttackRange(enemy, player)
       THEN [attacked |-> FALSE, damage |-> 0]
  ELSE [attacked |-> TRUE, damage |-> enemy.damage]

updateEnemy(enemy, player, level, deltaTime) ==
  IF enemy.state = "dead" \/ enemy.health <= 0 THEN [enemy EXCEPT !.state = "dead"]
  ELSE Only({LET updatedEnemy == [enemy EXCEPT !.state = newState]
             IN IF newState = "pursuing"
                THEN moveTowardPlayer(updatedEnemy, player, deltaTime, level)
                ELSE IF newState = "attacking"
                THEN Only({[updatedEnemy EXCEPT !.rotation = Atan2(direction.y, direction.x)] :
                           direction \in {getDirectionToPlayer(enemy, player)}})
                ELSE updatedEnemy :
             newState \in {determineNextState(enemy, player, level)}})

\* An updateEnemyWithAttack in which an enemy attacks as soon as it is in
\* range after its update.
updateEnemyWithAttackOnArrival(enemy, player, level, deltaTime) ==
  Only({[enemy |-> updatedEnemy,
         attack |-> IF updatedEnemy.state = "pursuing"
                    THEN performAttack([updatedEnemy EXCEPT !.state = "attacking"], player)
                    ELSE performAttack(updatedEnemy, player)] :
        updatedEnemy \in {updateEnemy(enemy, player, level, deltaTime)}})

updateEnemyWithAttack(enemy, player, level, deltaTime) ==
  Only({[enemy |-> updatedEnemy, attack |-> performAttack(updatedEnemy, player)] :
        updatedEnemy \in {updateEnemy(enemy, player, level, deltaTime)}})

handleDefeat(enemy) ==
  IF enemy.health <= 0 /\ enemy.state # "dead"
  THEN [defeated |-> TRUE, scoreIncrease |-> enemy.pointValue,
        enemy |-> [enemy EXCEPT !.state = "dead"]]
  ELSE [defeated |-> FALSE, scoreIncrease |-> 0, enemy |-> enemy]

damageAndCheckDefeat(enemy, damage) == handleDefeat(takeDamage(enemy, damage))

----------------------------------------------------------------------------
(* game/enemyManager.ts; the manager's private list is the sequence enemies *)

\* config is the given configuration with the defaults filled in.
spawnEnemy(enemies, position, spriteId, config) ==
  Append(enemies, createEnemy("enemy_" \o ToString(Len(enemies)), position, spriteId, config))

RECURSIVE spawnFromLevel(_, _)
spawnFromLevel(enemies, spawns) ==
  IF spawns = <<>> THEN enemies
  ELSE spawnFromLevel(spawnEnemy(enemies, Head(spawns).position, Head(spawns).enemyType,
                                 DEFAULT_ENEMY_CONFIG),
                      Tail(spawns))

RECURSIVE SumDamage(_)
SumDamage(results) ==
  IF results = <<>> THEN 0
  ELSE (IF Head(results).attack.attacked THEN Head(results).attack.damage ELSE 0)
       + SumDamage(Tail(results))

\* A variant of EnemyManager.update in which enemies get in each other's
\* way: an enemy does not move to within two radii of an enemy updated
\* before it.
RECURSIVE UpdateBlocking(_, _, _, _, _)
UpdateBlocking(todo, done, player, level, deltaTime) ==
  IF todo = <<>> THEN done
  ELSE LET enemy == Head(todo)
           result == IF isDead(enemy)
                     THEN [enemy |-> enemy, attack |-> [attacked |-> FALSE, damage |-> 0]]
                     ELSE updateEnemyWithAttack(enemy, player, level, deltaTime)
           blocked == \E j \in 1 .. Len(done) :
                        DistLT(done[j].enemy.position, result.enemy.position,
                               2 * DEFAULT_ENEMY_CONFIG.radius)
           kept == IF blocked
                   THEN [result EXCEPT !.enemy.position = enemy.position]
                   ELSE result
       IN UpdateBlocking(Tail(todo), Append(done, kept), player, level, deltaTime)

EnemyManager_updateBlocking(enemies, player, level, deltaTime) ==
  LET results == UpdateBlocking(enemies, <<>>, player, level, deltaTime)
  IN [enemies |-> [i \in 1 .. Len(enemies) |-> results[i].enemy],
      totalDamageToPlayer |-> SumDamage(results),
      totalScoreIncrease |-> 0,
      defeatedEnemyIds |-> <<>>]

\* EnemyManager.update: the new list and the result record.
EnemyManager_update(enemies, player, level, deltaTime) ==
  LET results == [i \in 1 .. Len(enemies) |->
                    IF isDead(enemies[i])
                    THEN [enemy |-> enemies[i], attack |-> [attacked |-> FALSE, damage |-> 0]]
                    ELSE updateEnemyWithAttack(enemies[i], player, level, deltaTime)]
  IN [enemies |-> [i \in 1 .. Len(enemies) |-> results[i].enemy],
      totalDamageToPlayer |-> SumDamage(results),
      totalScoreIncrease |-> 0,
      defeatedEnemyIds |-> <<>>]

\* findIndex: the first index whose enemy has the id, 0 when there is none.
FindIndex(enemies, enemyId) ==
  IF \E i \in 1 .. Len(enemies) : enemies[i].id = enemyId
  THEN CHOOSE i \in 1 .. Len(enemies) :
         /\ enemies[i].id = enemyId
         /\ \A j \in 1 .. i - 1 : enemies[j].id # enemyId
  ELSE 0

\* EnemyManager.damageEnemy: the new list and the returned score increase.
damageEnemy(enemies, enemyId, damage) ==
  LET index == FindIndex(enemies, enemyId)
  IN IF index = 0 THEN [enemies |-> enemies, scoreIncrease |-> 0]
     ELSE LET result == damageAndCheckDefeat(enemies[index], damage)
          IN [enemies |-> [enemies EXCEPT ![index] = result.enemy],
              scoreIncrease |-> result.scoreIncrease]

updateSingleEnemy(enemies, enemyId, player, level, deltaTime) ==
  [i \in 1 .. Len(enemies) |->
     IF enemies[i].id # enemyId THEN enemies[i]
     ELSE updateEnemyWithAttack(enemies[i], player, level, deltaTime).enemy]

updateAllEnemies(enemies, player, level, deltaTime) ==
  [i \in 1 .. Len(enemies) |-> updateEnemyWithAttack(enemies[i], player, level, deltaTime)]

----------------------------------------------------------------------------
(* game/player.ts *)

DEFAULT_WEAPON ==
  [name |-> "Pistol", damage |-> 10, fireRate |-> 2, ammoCost |-> 1,
   range |-> 10 * Scale, spriteSheet |-> "pistol", soundEffect |-> "pistol_fire"]

DEFAULT_STATS ==
  [health |-> 100, maxHealth |-> 100, ammunition |-> 50, maxAmmunition |-> 100,
   score |-> 0]

\* Thousandths of a cell per second.
PLAYER_MOVE_SPEED == 3000

\* 2.5 radians per second, in hundredths of a degree per second.
PLAYER_ROTATION_SPEED == 14324

\* The angle brought into [0, 2 * Math.PI).
normalizeAngle(angle) == angle % FullTurn

createPlayer(position, rotation) ==
  [position |-> position, rotation |-> normalizeAngle(rotation),
   stats |-> DEFAULT_STATS, inventory |-> <<>>, currentWeapon |-> DEFAULT_WEAPON]

fromAngle(angleRad) == vec2(Cos(angleRad), Sin(angleRad))

\* deltaTime is in milliseconds.
moveForward(player, deltaTime) ==
  [player EXCEPT !.position =
     add(@, multiply(fromAngle(player.rotation), RDiv(PLAYER_MOVE_SPEED * deltaTime, 1000)))]

moveBackward(player, deltaTime) ==
  [player EXCEPT !.position =
     add(@, multiply(fromAngle(player.rotation), -RDiv(PLAYER_MOVE_SPEED * deltaTime, 1000)))]

rotateLeft(player, deltaTime) ==
  [player EXCEPT !.rotation =
     normalizeAngle(@ - RDiv(PLAYER_ROTATION_SPEED * deltaTime, 1000))]

rotateRight(player, deltaTime) ==
  [player EXCEPT !.rotation =
     normalizeAngle(@ + RDiv(PLAYER_ROTATION_SPEED * deltaTime, 1000))]

\* The player's takeDamage.
\* A takeDamage without the floor of 0.
Player_takeDamageUnclamped(player, amount) ==
  IF amount < 0 THEN player
  ELSE [player EXCEPT !.stats.health = @ - amount]

Player_takeDamage(player, amount) ==
  IF amount < 0 THEN player
  ELSE [player EXCEPT !.stats.health = Max(0, @ - amount)]

\* A heal that takes any amount.
healAnyAmount(player, amount) ==
  [player EXCEPT !.stats.health = Min(player.stats.maxHealth, @ + amount)]

heal(player, amount) ==
  IF amount < 0 THEN player
  ELSE [player EXCEPT !.stats.health = Min(player.stats.maxHealth, @ + amount)]

\* The player's isDead.
isPlayerDead(player) == player.stats.health <= 0

addScore(player, points) == [player EXCEPT !.stats.score = @ + points]

fire(player) ==
  IF player.stats.ammunition < player.currentWeapon.ammoCost
  THEN [success |-> FALSE, player |-> player]
  ELSE [success |-> TRUE,
        player |-> [player EXCEPT !.stats.ammunition = @ - player.currentWeapon.ammoCost]]

\* An addAmmunition without the cap.
addAmmunitionUncapped(player, amount) ==
  IF amount < 0 THEN player
  ELSE [player EXCEPT !.stats.ammunition = @ + amount]

addAmmunition(player, amount) ==
  IF amount < 0 THEN player
  ELSE [player EXCEPT !.stats.ammunition = Min(player.stats.maxAmmunition, @ + amount)]

canFire(player) == player.stats.ammunition >= player.currentWeapon.ammoCost

addKey(player, keyId) ==
  IF \E i \in 1 .. Len(player.inventory) : player.inventory[i] = keyId THEN player
  ELSE [player EXCEPT !.inventory = Append(@, keyId)]

setPosition(player, position) == [player EXCEPT !.position = position]

----------------------------------------------------------------------------
(* game/levels: the maps of the game *)

LEVEL_LAB ==
  [width |-> 16, height |-> 16,
   grid |-> << <<1, 1, 1, 1, 1, 1, 1, 1, 1, 1, 1, 1, 1, 1, 1, 1>>,
               <<1, 0, 0, 0, 0, 0, 0, 0, 0, 0, 0, 0, 0, 0, 0, 1>>,
               <<1, 0, 0, 0, 0, 0, 0, 0, 0, 0, 0, 0, 0, 0, 0, 1>>,
               <<1, 0, 0, 2, 2, 0, 0, 0, 0, 0, 0, 2, 2, 0, 0, 1>>,
               <<1, 0, 0, 2, 2, 0, 0, 0, 0, 0, 0, 2, 2, 0, 0, 1>>,
               <<1, 0, 0, 0, 0, 0, 0, 0, 0, 0, 0, 0, 0, 0, 0, 1>>,
               <<1, 0, 0, 0, 0, 0, 0, 0, 0, 0, 0, 0, 0, 0, 0, 1>>,
               <<1, 0, 0, 0, 0, 0, 0, 3, 3, 0, 0, 0, 0, 0, 0, 1>>,
               <<1, 0, 0, 0, 0, 0, 0, 3, 3, 0, 0, 0, 0, 0, 0, 1>>,
               <<1, 0, 0, 0, 0, 0, 0, 0, 0, 0, 0, 0, 0, 0, 0, 1>>,
               <<1, 0, 0, 0, 0, 0, 0, 0, 0, 0, 0, 0, 0, 0, 0, 1>>,
               <<1, 0, 0, 2, 2, 0, 0, 0, 0, 0, 0, 2, 2, 0, 0, 1>>,
               <<1, 0, 0, 2, 2, 0, 0, 0, 0, 0, 0, 2, 2, 0, 0, 1>>,
               <<1, 0, 0, 0, 0, 0, 0, 0, 0, 0, 0, 0, 0, 0, 0, 1>>,
               <<1, 0, 0, 0, 0, 0, 0, 0, 0, 0, 0, 0, 0, 0, 0, 1>>,
               <<1, 1, 1, 1, 1, 1, 1, 1, 1, 1, 1, 1, 1, 1, 1, 1>> >>,
   playerSpawn |-> vec2(2500, 2500),
   enemySpawns |-> << [position |-> vec2(6500, 6500), enemyType |-> "zombie"],
                      [position |-> vec2(10500, 6500), enemyType |-> "zombie"],
                      [position |-> vec2(8500, 12500), enemyType |-> "zombie"] >>,
   items |-> << [position |-> vec2(5500, 2500), itemType |-> "ammo", value |-> 10],
                [position |-> vec2(13500, 2500), itemType |-> "health", value |-> 25],
                [position |-> vec2(2500, 13500), itemType |-> "ammo", value |-> 10] >>,
   exitPoint |-> vec2(13500, 13500)]

LEVEL_DUNGEON ==
  [width |-> 20, height |-> 20,
   grid |-> << <<1, 1, 1, 1, 1, 1, 1, 1, 1, 1, 1, 1, 1, 1, 1, 1, 1, 1, 1, 1>>,
               <<1, 0, 0, 0, 1, 0, 0, 0, 0, 0, 0, 0, 0, 0, 0, 1, 0, 0, 0, 1>>,
               <<1, 0, 0, 0, 1, 0, 0, 0, 0, 0, 0, 0, 0, 0, 0, 1, 0, 0, 0, 1>>,
               <<1, 0, 0, 0, 1, 0, 0, 0, 0, 0, 0, 0, 0, 0, 0, 1, 0, 0, 0, 1>>,
               <<1, 0, 0, 0, 0, 0, 0, 0, 1, 1, 1, 1, 0, 0, 0, 0, 0, 0, 0, 1>>,
               <<1, 0, 0, 0, 0, 0, 0, 0, 1, 0, 0, 1, 0, 0, 0, 0, 0, 0, 0, 1>>,
               <<1, 0, 0, 0, 0, 0, 0, 0, 1, 0, 0, 1, 0, 0, 0, 0, 0, 0, 0, 1>>,
               <<1, 1, 1, 0, 0, 0, 0, 0, 1, 0, 0, 1, 0, 0, 0, 0, 0, 1, 1, 1>>,
               <<1, 0, 0, 0, 0, 0, 0, 0, 0, 0, 0, 0, 0, 0, 0, 0, 0, 0, 0, 1>>,
               <<1, 0, 0, 0, 0, 0, 0, 0, 0, 0, 0, 0, 0, 0, 0, 0, 0, 0, 0, 1>>,
               <<1, 0, 0, 0, 0, 0, 0, 0, 0, 0, 0, 0, 0, 0, 0, 0, 0, 0, 0, 1>>,
               <<1, 0, 0, 0, 0, 0, 0, 0, 0, 0, 0, 0, 0, 0, 0, 0, 0, 0, 0, 1>>,
               <<1, 1, 1, 0, 0, 0, 0, 0, 1, 0, 0, 1, 0, 0, 0, 0, 0, 1, 1, 1>>,
               <<1, 0, 0, 0, 0, 0, 0, 0, 1, 0, 0, 1, 0, 0, 0, 0, 0, 0, 0, 1>>,
               <<1, 0, 0, 0, 0, 0, 0, 0, 1, 0, 0, 1, 0, 0, 0, 0, 0, 0, 0, 1>>,
               <<1, 0, 0, 0, 0, 0, 0, 0, 1, 1, 1, 1, 0, 0, 0, 0, 0, 0, 0, 1>>,
               <<1, 0, 0, 0, 1, 0, 0, 0, 0, 0, 0, 0, 0, 0, 0, 1, 0, 0, 0, 1>>,
               <<1, 0, 0, 0, 1, 0, 0, 0, 0, 0, 0, 0, 0, 0, 0, 1, 0, 0, 0, 1>>,
               <<1, 0, 0, 0, 1, 0, 0, 0, 0, 0, 0, 0, 0, 0, 0, 1, 0, 0, 0, 1>>,
               <<1, 1, 1, 1, 1, 1, 1, 1, 1, 1, 1, 1, 1, 1, 1, 1, 1, 1, 1, 1>> >>,
   playerSpawn |-> vec2(1500, 1500),
   enemySpawns |-> << [position |-> vec2(9500, 5500), enemyType |-> "zombie"],
                      [position |-> vec2(10500, 5500), enemyType |-> "zombie"],
                      [position |-> vec2(5500, 9500), enemyType |-> "skeleton"],
                      [position |-> vec2(14500, 9500), enemyType |-> "skeleton"],
                      [position |-> vec2(9500, 14500), enemyType |-> "zombie"] >>,
   items |-> << [position |-> vec2(17500, 1500), itemType |-> "health", value |-> 25],
                [position |-> vec2(1500, 9500), itemType |-> "ammo", value |-> 15],
                [position |-> vec2(18500, 9500), itemType |-> "ammo", value |-> 15],
                [position |-> vec2(9500, 9500), itemType |-> "key", value |-> 1],
                [position |-> vec2(1500, 17500), itemType |-> "health", value |-> 50] >>,
   exitPoint |-> vec2(18500, 18500)]

----------------------------------------------------------------------------
(* game/level.ts *)

\* x and y are cell indices here.
isWithinBounds(x, y, level) == x >= 0 /\ x < level.width /\ y >= 0 /\ y < level.height

\* The level module's getTile, on fixed-point coordinates.
Level_getTile(x, y, level) ==
  IF ~isWithinBounds(Floor(x), Floor(y), level) THEN -1
  ELSE level.grid[Floor(y) + 1][Floor(x) + 1]

\* An isWall that knows positive tiles only.
Level_isWallPositiveOnly(x, y, level) == Level_getTile(x, y, level) > 0

\* The level module's isWall.
Level_isWall(x, y, level) ==
  LET tile == Level_getTile(x, y, level)
  IN tile > 0 \/ tile = -1

EXIT_DETECTION_RADIUS == 500

isAtExitPoint(position, level) == DistLE(position, level.exitPoint, EXIT_DETECTION_RADIUS)

----------------------------------------------------------------------------
(* game/item.ts *)

COLLECTION_RADIUS == 500

getDefaultSpriteId(type) ==
  CASE type = "health" -> "health_pack"
    [] type = "ammo" -> "ammo_box"
    [] type = "key" -> "key_default"

\* The item made by the itemIdCounter-th call of generateItemId.
createItem(itemIdCounter, type, position, value) ==
  [id |-> "item_" \o ToString(itemIdCounter), type |-> type, position |-> position,
   value |-> value, collected |-> FALSE, spriteId |-> getDefaultSpriteId(type)]

isInCollectionRange(playerPosition, itemPosition, collectionRadius) ==
  DistLE(playerPosition, itemPosition, collectionRadius)

canCollectItem(item, playerPosition, collectionRadius) ==
  IF item.collected THEN FALSE
  ELSE isInCollectionRange(playerPosition, item.position, collectionRadius)

applyItemEffect(player, item) ==
  CASE item.type = "health" -> heal(player, item.value)
    [] item.type = "ammo" -> addAmmunition(player, item.value)
    [] item.type = "key" -> addKey(player, "key_" \o ToString(item.value))

markAsCollected(item) == [item EXCEPT !.collected = TRUE]

collectItem(player, item, collectionRadius) ==
  IF ~canCollectItem(item, player.position, collectionRadius)
  THEN [collected |-> FALSE, player |-> player, item |-> item]
  ELSE [collected |-> TRUE, player |-> applyItemEffect(player, item),
        item |-> markAsCollected(item)]

\* processItems, item by item; acc holds currentPlayer, the items mapped so
\* far and collectedCount.
RECURSIVE ProcessLoop(_, _, _)
ProcessLoop(todo, acc, collectionRadius) ==
  IF todo = <<>> THEN acc
  ELSE Only({ProcessLoop(Tail(todo),
                         IF result.collected
                         THEN [player |-> result.player,
                               items |-> Append(acc.items, result.item),
                               collectedCount |-> acc.collectedCount + 1]
                         ELSE [acc EXCEPT !.items = Append(@, Head(todo))],
                         collectionRadius) :
             result \in {collectItem(acc.player, Head(todo), collectionRadius)}})

processItems(player, items) ==
  ProcessLoop(items, [player |-> player, items |-> <<>>, collectedCount |-> 0],
              COLLECTION_RADIUS)

\* The items of the spawns; the first gets the id after itemIdCounter.
createItemsFromSpawns(itemIdCounter, spawns) ==
  [i \in 1 .. Len(spawns) |->
     createItem(itemIdCounter + i, spawns[i].itemType, spawns[i].position, spawns[i].value)]

----------------------------------------------------------------------------
(* engine/gameLoop.ts; times are in milliseconds *)

MAX_DELTA_TIME == 100

\* The fields of a GameLoop after construction. animationFrameId is 0 for
\* null and 1 while a frame request is pending.
GameLoop_new ==
  [isRunning |-> FALSE, isPaused |-> FALSE, lastTimestamp |-> 0,
   animationFrameId |-> 0, accumulatedTime |-> 0, frameCount |-> 0,
   fpsUpdateTime |-> 0, currentFPS |-> 0]

GameLoop_start(loop) ==
  IF loop.isRunning THEN loop
  ELSE [loop EXCEPT !.isRunning = TRUE, !.isPaused = FALSE, !.lastTimestamp = 0,
                    !.accumulatedTime = 0, !.frameCount = 0, !.fpsUpdateTime = 0,
                    !.animationFrameId = 1]

GameLoop_stop(loop) ==
  [loop EXCEPT !.animationFrameId = 0, !.isRunning = FALSE, !.isPaused = FALSE,
               !.lastTimestamp = 0]

\* A pause that does not look at isRunning.
GameLoop_pauseAlways(loop) == [loop EXCEPT !.isPaused = TRUE]

GameLoop_pause(loop) ==
  IF ~loop.isRunning THEN loop
  ELSE [loop EXCEPT !.isPaused = TRUE]

\* A resume that keeps the last timestamp.
GameLoop_resumeKeepsTimestamp(loop) ==
  IF ~loop.isRunning THEN loop
  ELSE [loop EXCEPT !.isPaused = FALSE]

GameLoop_resume(loop) ==
  IF ~loop.isRunning THEN loop
  ELSE [loop EXCEPT !.isPaused = FALSE, !.lastTimestamp = 0]

updateFPSCounter(loop, timestamp, deltaTime) ==
  LET frameCount == loop.frameCount + 1
      accumulatedTime == loop.accumulatedTime + deltaTime
  IN IF accumulatedTime >= 1000
     THEN [loop EXCEPT !.currentFPS = RDiv(frameCount * 1000, accumulatedTime),
                       !.frameCount = 0, !.accumulatedTime = 0]
     ELSE [loop EXCEPT !.frameCount = frameCount, !.accumulatedTime = accumulatedTime]

\* GameLoop.loop up to the callbacks: the loop's fields, the deltaTime of
\* the frame and the callbacks it goes on to invoke, in their order.
GameLoop_loop(loop, timestamp) ==
  IF ~loop.isRunning THEN [loop |-> loop, deltaTime |-> 0, calls |-> <<>>]
  ELSE LET deltaTime == IF loop.lastTimestamp > 0
                        THEN Min(timestamp - loop.lastTimestamp, MAX_DELTA_TIME)
                        ELSE 0
           counted == updateFPSCounter([loop EXCEPT !.animationFrameId = 1,
                                                    !.lastTimestamp = timestamp],
                                       timestamp, deltaTime)
       IN [loop |-> counted, deltaTime |-> deltaTime,
           calls |-> IF loop.isPaused THEN <<>> ELSE <<"onUpdate", "onRender">>]

----------------------------------------------------------------------------
(* engine/gameLoop.ts with the browser's frame requests: b holds the loop, *)
(* the ids of the requests the browser has pending, and the id the next    *)
(* request gets; the loop's animationFrameId is 0 for null.                *)

Frames_new == [loop |-> GameLoop_new, pending |-> {}, nextId |-> 1]

requestAnimationFrame(b) ==
  [b EXCEPT !.pending = @ \cup {b.nextId},
            !.loop.animationFrameId = b.nextId,
            !.nextId = @ + 1]

cancelAnimationFrame(b, id) == [b EXCEPT !.pending = @ \ {id}]

Frames_start(b) ==
  IF b.loop.isRunning THEN b
  ELSE requestAnimationFrame([b EXCEPT !.loop = GameLoop_start(@)])

Frames_stop(b) ==
  [(IF b.loop.animationFrameId # 0
    THEN cancelAnimationFrame(b, b.loop.animationFrameId) ELSE b)
   EXCEPT !.loop = GameLoop_stop(@)]

Frames_pause(b) == [b EXCEPT !.loop = GameLoop_pause(@)]

Frames_resume(b) == [b EXCEPT !.loop = GameLoop_resume(@)]

\* The browser runs the request id: loop(timestamp) up to the call of
\* onUpdate, with the callbacks it goes on to invoke.
Frames_loop(b, id, timestamp) ==
  LET run == [b EXCEPT !.pending = @ \ {id}]
  IN IF ~run.loop.isRunning THEN [frames |-> run, calls |-> <<>>]
     ELSE Only({[frames |-> requestAnimationFrame([run EXCEPT !.loop = frame.loop]),
                 calls |-> frame.calls] :
                frame \in {GameLoop_loop(run.loop, timestamp)}})

----------------------------------------------------------------------------
(* game/gameState.ts: serialization.  A JSON text is either text that      *)
(* JSON.parse rejects or the value JSON.parse makes of it; a value carries *)
(* what typeof and Array.isArray say about it.                             *)

SAVE_DATA_VERSION == "1.0.0"

JNumber(n) == [type |-> "number", finite |-> TRUE, value |-> n]
\* What JSON.parse makes of 1e999.
JInfinity == [type |-> "number", finite |-> FALSE, value |-> 0]
JString(s) == [type |-> "string", value |-> s]
JArray(items) == [type |-> "array", value |-> items]
JObject(fields) == [type |-> "object", value |-> fields]
JNull == [type |-> "null"]
JUndefined == [type |-> "undefined"]

\* value[name] of the source: undefined when the property is missing.
Prop(v, name) ==
  IF v.type = "object" /\ name \in DOMAIN v.value THEN v.value[name] ELSE JUndefined

\* typeof value === 'object' && value !== null
isObject(v) == v.type \in {"object", "array"}

\* typeof value === 'number' && isFinite(value)
isFiniteNumber(v) == v.type = "number" /\ v.finite

\* Array.isArray(value) && value.every(test), for the two tests used.
isArrayOfStrings(v) ==
  v.type = "array" /\ \A i \in DOMAIN v.value : v.value[i].type = "string"

\* The parsed value with the tags taken off: the object the source reads.
RECURSIVE Plain(_)
Plain(v) ==
  CASE v.type = "array" -> [i \in DOMAIN v.value |-> Plain(v.value[i])]
    [] v.type = "object" -> [f \in DOMAIN v.value |-> Plain(v.value[f])]
    [] OTHER -> v.value

JSON_stringifyVector(v) == JObject([x |-> JNumber(v.x), y |-> JNumber(v.y)])

JSON_stringifyStrings(list) == JArray([i \in DOMAIN list |-> JString(list[i])])

\* JSON.stringify of a SaveData: the text that parses to this value.
JSON_stringify(saveData) ==
  [parses |-> TRUE,
   value |->
     JObject(
       [version |-> JString(saveData.version),
        timestamp |-> JNumber(saveData.timestamp),
        gameState |->
          JObject(
            [player |->
               JObject(
                 [position |-> JSON_stringifyVector(saveData.gameState.player.position),
                  rotation |-> JNumber(saveData.gameState.player.rotation),
                  stats |->
                    JObject([f \in DOMAIN saveData.gameState.player.stats |->
                               JNumber(saveData.gameState.player.stats[f])]),
                  inventory |->
                    JSON_stringifyStrings(saveData.gameState.player.inventory)]),
             currentLevel |-> JNumber(saveData.gameState.currentLevel),
             enemies |->
               JArray([i \in DOMAIN saveData.gameState.enemies |->
                         JObject(
                           [id |-> JString(saveData.gameState.enemies[i].id),
                            position |->
                              JSON_stringifyVector(saveData.gameState.enemies[i].position),
                            health |-> JNumber(saveData.gameState.enemies[i].health),
                            state |-> JString(saveData.gameState.enemies[i].state)])]),
             collectedItems |->
               JSON_stringifyStrings(saveData.gameState.collectedItems),
             elapsedTime |-> JNumber(saveData.gameState.elapsedTime)])])]

\* Text that is not JSON.
NotJson == [parses |-> FALSE, value |-> JNull]

createEmptyLevelMap(width, height) ==
  [width |-> width, height |-> height,
   grid |-> [y \in 1 .. height |-> [x \in 1 .. width |-> 0]],
   playerSpawn |-> vec2(1500, 1500), enemySpawns |-> <<>>, items |-> <<>>,
   exitPoint |-> vec2(width * Scale - 1500, height * Scale - 1500)]

createDefaultGameState ==
  [status |-> "menu", player |-> createPlayer(vec2(1500, 1500), 0),
   enemies |-> <<>>, items |-> <<>>, currentLevel |-> 0,
   levelMap |-> createEmptyLevelMap(10, 10), elapsedTime |-> 0]

\* The subsequence of the elements that pass the test, as Array.filter.
RECURSIVE CollectedIds(_)
CollectedIds(items) ==
  IF items = <<>> THEN <<>>
  ELSE IF Head(items).collected
       THEN <<Head(items).id>> \o CollectedIds(Tail(items))
       ELSE CollectedIds(Tail(items))

\* A serialize that leaves the collected items out.
serializeWithoutItems(gameState, now) ==
  JSON_stringify(
    [version |-> SAVE_DATA_VERSION, timestamp |-> now,
     gameState |->
       [player |-> [position |-> gameState.player.position,
                    rotation |-> gameState.player.rotation,
                    stats |-> gameState.player.stats,
                    inventory |-> gameState.player.inventory],
        currentLevel |-> gameState.currentLevel,
        enemies |-> [i \in DOMAIN gameState.enemies |->
                       [id |-> gameState.enemies[i].id,
                        position |-> gameState.enemies[i].position,
                        health |-> gameState.enemies[i].health,
                        state |-> gameState.enemies[i].state]],
        collectedItems |-> <<>>,
        elapsedTime |-> gameState.elapsedTime]])

\* What Date.now() returns when the page is opened.
SaveClock == 1700000000

\* now is what Date.now() returns.
serialize(gameState, now) ==
  JSON_stringify(
    [version |-> SAVE_DATA_VERSION, timestamp |-> now,
     gameState |->
       [player |-> [position |-> gameState.player.position,
                    rotation |-> gameState.player.rotation,
                    stats |-> gameState.player.stats,
                    inventory |-> gameState.player.inventory],
        currentLevel |-> gameState.currentLevel,
        enemies |-> [i \in DOMAIN gameState.enemies |->
                       [id |-> gameState.enemies[i].id,
                        position |-> gameState.enemies[i].position,
                        health |-> gameState.enemies[i].health,
                        state |-> gameState.enemies[i].state]],
        collectedItems |-> CollectedIds(gameState.items),
        elapsedTime |-> gameState.elapsedTime]])

isValidVector2(v) ==
  /\ isObject(v)
  /\ isFiniteNumber(Prop(v, "x"))
  /\ isFiniteNumber(Prop(v, "y"))

isValidPlayerStats(v) ==
  /\ isObject(v)
  /\ \A f \in {"health", "maxHealth", "ammunition", "maxAmmunition", "score"} :
       isFiniteNumber(Prop(v, f))

isValidEnemyState(v) ==
  v.type = "string" /\ v.value \in {"idle", "pursuing", "attacking", "dead"}

isValidEnemySaveData(v) ==
  /\ isObject(v)
  /\ Prop(v, "id").type = "string"
  /\ isValidVector2(Prop(v, "position"))
  /\ isFiniteNumber(Prop(v, "health"))
  /\ isValidEnemyState(Prop(v, "state"))

validateSaveData(data) ==
  /\ isObject(data)
  /\ Prop(data, "version").type = "string"
  /\ isFiniteNumber(Prop(data, "timestamp"))
  /\ isObject(Prop(data, "gameState"))
  /\ \E gs \in {Prop(data, "gameState")} :
       /\ isObject(Prop(gs, "player"))
       /\ \E player \in {Prop(gs, "player")} :
            /\ isValidVector2(Prop(player, "position"))
            /\ isFiniteNumber(Prop(player, "rotation"))
            /\ isValidPlayerStats(Prop(player, "stats"))
            /\ isArrayOfStrings(Prop(player, "inventory"))
       /\ isFiniteNumber(Prop(gs, "currentLevel"))
       /\ Prop(gs, "currentLevel").value >= 0
       /\ Prop(gs, "enemies").type = "array"
       /\ \A i \in DOMAIN Prop(gs, "enemies").value :
            isValidEnemySaveData(Prop(gs, "enemies").value[i])
       /\ isArrayOfStrings(Prop(gs, "collectedItems"))
       /\ isFiniteNumber(Prop(gs, "elapsedTime"))
       /\ Prop(gs, "elapsedTime").value >= 0

\* JSON.parse throws on text that is not JSON; the catch makes it a failure.
deserializeSaveData(json) ==
  IF ~json.parses THEN [success |-> FALSE]
  ELSE IF ~validateSaveData(json.value) THEN [success |-> FALSE]
  ELSE [success |-> TRUE, saveData |-> Plain(json.value)]

\* An applySaveData that restores the player only.
applySaveDataPlayerOnly(saveData, currentState) ==
  [currentState EXCEPT
     !.status = "playing",
     !.player = [@ EXCEPT !.position = saveData.gameState.player.position,
                          !.rotation = saveData.gameState.player.rotation,
                          !.stats = saveData.gameState.player.stats,
                          !.inventory = saveData.gameState.player.inventory],
     !.currentLevel = saveData.gameState.currentLevel,
     !.elapsedTime = saveData.gameState.elapsedTime]

applySaveData(saveData, currentState) ==
  LET saved == saveData.gameState
      Found(enemy) == {j \in DOMAIN saved.enemies : saved.enemies[j].id = enemy.id}
      First(S) == CHOOSE j \in S : \A k \in S : j <= k
  IN [currentState EXCEPT
        !.status = "playing",
        !.player = [@ EXCEPT !.position = saved.player.position,
                             !.rotation = saved.player.rotation,
                             !.stats = saved.player.stats,
                             !.inventory = saved.player.inventory],
        !.enemies = [i \in DOMAIN @ |->
                       IF Found(@[i]) = {} THEN @[i]
                       ELSE Only({[@[i] EXCEPT !.position = savedEnemy.position,
                                               !.health = savedEnemy.health,
                                               !.state = savedEnemy.state] :
                                  savedEnemy \in {saved.enemies[First(Found(@[i]))]}})],
        !.items = [i \in DOMAIN @ |->
                     [@[i] EXCEPT !.collected =
                        \E j \in DOMAIN saved.collectedItems :
                          saved.collectedItems[j] = currentState.items[i].id]],
        !.currentLevel = saved.currentLevel,
        !.elapsedTime = saved.elapsedTime]

\* The restored state, or null.
deserialize(json, currentState) ==
  IF ~deserializeSaveData(json).success THEN [isNull |-> TRUE]
  ELSE [isNull |-> FALSE,
        state |-> applySaveData(deserializeSaveData(json).saveData, currentState)]

\* GameStateManager; m is the manager's _state.
GameStateManager_new == createDefaultGameState

GameStateManager_initialize == createDefaultGameState

GameStateManager_update(m, deltaTime) == [m EXCEPT !.elapsedTime = @ + deltaTime]

GameStateManager_serialize(m, now) == serialize(m, now)

\* A deserialize that falls back to the default state.
GameStateManager_deserializeOrReset(m, json) ==
  IF deserialize(json, m).isNull
  THEN [state |-> createDefaultGameState, returns |-> FALSE]
  ELSE [state |-> deserialize(json, m).state, returns |-> TRUE]

GameStateManager_deserialize(m, json) ==
  IF deserialize(json, m).isNull
  THEN [state |-> m, returns |-> FALSE]
  ELSE [state |-> deserialize(json, m).state, returns |-> TRUE]

GameStateManager_validateState(json) ==
  IF ~json.parses THEN FALSE ELSE validateSaveData(json.value)

----------------------------------------------------------------------------
(* input/inputHandler.ts; h holds the handler's activeActions and its      *)
(* keyBindings                                                             *)

DEFAULT_KEY_BINDINGS ==
  ("w" :> "moveForward") @@ ("W" :> "moveForward")
  @@ ("s" :> "moveBackward") @@ ("S" :> "moveBackward")
  @@ ("a" :> "turnLeft") @@ ("A" :> "turnLeft")
  @@ ("d" :> "turnRight") @@ ("D" :> "turnRight")
  @@ ("ArrowUp" :> "moveForward") @@ ("ArrowDown" :> "moveBackward")
  @@ ("ArrowLeft" :> "turnLeft") @@ ("ArrowRight" :> "turnRight")
  @@ (" " :> "fire") @@ ("e" :> "interact") @@ ("E" :> "interact")

InputHandler_new == [activeActions |-> {}, keyBindings |-> DEFAULT_KEY_BINDINGS]

InputHandler_handleKeyDown(h, key) ==
  IF key \in DOMAIN h.keyBindings
  THEN [h EXCEPT !.activeActions = @ \cup {h.keyBindings[key]}]
  ELSE h

InputHandler_handleKeyUp(h, key) ==
  IF key \in DOMAIN h.keyBindings
  THEN [h EXCEPT !.activeActions = @ \ {h.keyBindings[key]}]
  ELSE h

InputHandler_getInputState(h) == [activeActions |-> h.activeActions]

InputHandler_isActionActive(h, action) == action \in h.activeActions

----------------------------------------------------------------------------
(* engine/renderer.ts: the projection of a sprite; screen coordinates and  *)
(* scales are held in thousandths                                          *)

\* What calculateSpriteRenderData returns for a sprite it leaves out.
NoRenderData == [isNull |-> TRUE, distance |-> 0, screenX |-> 0, scale |-> 0]

calculateSpriteRenderData(sprite, playerPosition, playerRotation, config) ==
  LET dx == sprite.position.x - playerPosition.x
      dy == sprite.position.y - playerPosition.y
      cos == Cos(-playerRotation)
      sin == Sin(-playerRotation)
      transformX == RDiv(dx * cos - dy * sin, Scale)
      transformY == RDiv(dx * sin + dy * cos, Scale)
      screenX == (config.screenWidth \div 2)
                 * (Scale + RDiv(transformX * Scale, transformY))
      spriteScale == RDiv(config.screenHeight * Scale * sprite.scale,
                          Max(transformY, 100))
      spriteWidth == Min(spriteScale, config.screenHeight * 3 * Scale)
  IN IF transformY <= 50 THEN NoRenderData
     ELSE IF screenX < -spriteWidth * 2
             \/ screenX > config.screenWidth * Scale + spriteWidth * 2
          THEN NoRenderData
          ELSE [isNull |-> FALSE, distance |-> transformY, screenX |-> screenX,
                scale |-> spriteScale]

----------------------------------------------------------------------------
(* components/GameContainer: the state of the game and its handlers.       *)
(* The state is a record g of the refs the handlers read and write; the    *)
(* React state follows the refs.  levelMap is GAME_LEVELS[currentLevel].   *)
(* nextEnemyId and itemIdCounter are the counters of the enemy manager and *)
(* of the item module, which no handler resets.                            *)

GAME_LEVELS == <<LEVEL_LAB, LEVEL_DUNGEON>>

PLAYER_RADIUS == 300

ENEMY_ATTACK_COOLDOWN == 1000

\* The component after it is mounted.
GameContainer_new ==
  [status |-> "menu", player |-> createPlayer(vec2(2500, 2500), 0),
   enemies |-> <<>>, items |-> <<>>, currentLevel |-> 0, elapsedTime |-> 0,
   attackCooldown |-> 0, nextEnemyId |-> 0, itemIdCounter |-> 0,
   gameLoop |-> GameLoop_new]

levelMapOf(g) == GAME_LEVELS[g.currentLevel + 1]

\* manager.clear() followed by manager.spawnFromLevel(spawns).
spawnAfterClear(nextEnemyId, spawns) ==
  [i \in 1 .. Len(spawns) |->
     createEnemy("enemy_" \o ToString(nextEnemyId + i - 1), spawns[i].position,
                 spawns[i].enemyType, DEFAULT_ENEMY_CONFIG)]

initializeLevel(g, levelIndex, preserveScore) ==
  IF levelIndex < 0 \/ levelIndex >= Len(GAME_LEVELS) THEN g
  ELSE LET level == GAME_LEVELS[levelIndex + 1]
           newPlayer == createPlayer(level.playerSpawn, 0)
       IN [g EXCEPT !.player = IF preserveScore
                               THEN [newPlayer EXCEPT !.stats.score = g.player.stats.score]
                               ELSE newPlayer,
                    !.currentLevel = levelIndex,
                    !.enemies = spawnAfterClear(g.nextEnemyId, level.enemySpawns),
                    !.nextEnemyId = @ + Len(level.enemySpawns),
                    !.items = createItemsFromSpawns(g.itemIdCounter, level.items),
                    !.itemIdCounter = @ + Len(level.items),
                    !.attackCooldown = 0]

\* EnemyManager.findClosestEnemy: the index of the first of the nearest
\* live enemies closer than maxDistance, 0 when there is none.
findClosestEnemy(enemies, position, maxDistance) ==
  LET Sq(i) == (enemies[i].position.x - position.x) * (enemies[i].position.x - position.x)
               + (enemies[i].position.y - position.y) * (enemies[i].position.y - position.y)
      Near == {i \in 1 .. Len(enemies) :
                 ~isDead(enemies[i]) /\ Sq(i) < maxDistance * maxDistance}
  IN IF Near = {} THEN 0
     ELSE CHOOSE i \in Near : \A j \in Near : Sq(j) > Sq(i) \/ (Sq(j) = Sq(i) /\ j >= i)

\* The player after the movement keys of the frame, before collision.
MovedPlayer(player, activeActions, deltaTime) ==
  LET forward == IF "moveForward" \in activeActions
                 THEN moveForward(player, deltaTime) ELSE player
      backward == IF "moveBackward" \in activeActions
                  THEN moveBackward(forward, deltaTime) ELSE forward
      left == IF "turnLeft" \in activeActions
              THEN rotateLeft(backward, deltaTime) ELSE backward
  IN IF "turnRight" \in activeActions THEN rotateRight(left, deltaTime) ELSE left

\* A handleUpdate that takes the moved position as it is.
ResolvedPlayerNoCollision(player, activeActions, deltaTime, level) ==
  MovedPlayer(player, activeActions, deltaTime)

\* The player after movement and collision resolution.
ResolvedPlayer(player, activeActions, deltaTime, level) ==
  Only({setPosition(moved, moveWithCollision(player.position, moved.position,
                                             PLAYER_RADIUS, level)) :
        moved \in {MovedPlayer(player, activeActions, deltaTime)}})

\* The firing part of handleUpdate: the player and the manager's enemies.
FireStage(enemies, activeActions, currentPlayer) ==
  IF "fire" \notin activeActions \/ ~fire(currentPlayer).success
  THEN [player |-> currentPlayer, enemies |-> enemies]
  ELSE Only({IF closest = 0 THEN [player |-> fired, enemies |-> enemies]
             ELSE Only({[player |-> IF hit.scoreIncrease > 0
                                    THEN addScore(fired, hit.scoreIncrease) ELSE fired,
                         enemies |-> hit.enemies] :
                        hit \in {damageEnemy(enemies, enemies[closest].id,
                                             fired.currentWeapon.damage)}}) :
             fired \in {fire(currentPlayer).player},
             closest \in {findClosestEnemy(enemies, currentPlayer.position,
                                           currentPlayer.currentWeapon.range)}})

\* The end of handleUpdate: death, level exit and the player's new state.
FinishUpdate(g, level, deltaTime, currentPlayer, enemies, items, attackCooldown) ==
  LET dead == isPlayerDead(currentPlayer)
      updated == [g EXCEPT !.elapsedTime = @ + deltaTime,
                           !.enemies = enemies,
                           !.items = items,
                           !.attackCooldown = attackCooldown,
                           !.status = IF dead THEN "gameOver" ELSE @,
                           !.gameLoop = IF dead THEN GameLoop_pause(@) ELSE @]
      left == IF ~isAtExitPoint(currentPlayer.position, level) THEN updated
              ELSE IF g.currentLevel + 1 < Len(GAME_LEVELS)
                   THEN initializeLevel(updated, g.currentLevel + 1, TRUE)
                   ELSE [updated EXCEPT !.status = "victory",
                                        !.gameLoop = GameLoop_pause(@)]
  IN [left EXCEPT !.player = currentPlayer]

\* The enemies' damage with its cooldown, then the items.
DamageStage(g, level, deltaTime, currentPlayer, enemyResult) ==
  LET cooldown == g.attackCooldown - deltaTime
      hurt == enemyResult.totalDamageToPlayer > 0 /\ cooldown <= 0
  IN Only({FinishUpdate(g, level, deltaTime, itemResult.player, enemyResult.enemies,
                        IF itemResult.collectedCount > 0 THEN itemResult.items ELSE g.items,
                        IF hurt THEN ENEMY_ATTACK_COOLDOWN ELSE cooldown) :
           itemResult \in {processItems(IF hurt
                                        THEN Player_takeDamage(currentPlayer,
                                               enemyResult.totalDamageToPlayer)
                                        ELSE currentPlayer,
                                        g.items)}})

handleUpdate(g, activeActions, deltaTime) ==
  IF g.status # "playing" THEN g
  ELSE Only({Only({Only({DamageStage(g, level, deltaTime, shot.player, enemyResult) :
                         enemyResult \in {EnemyManager_update(shot.enemies, shot.player,
                                                              level, deltaTime)}}) :
                   shot \in {FireStage(g.enemies, activeActions, resolved)}}) :
             level \in {levelMapOf(g)},
             resolved \in {ResolvedPlayer(g.player, activeActions, deltaTime, levelMapOf(g))}})

\* handleRender: what the renderer is given to draw, the canvas being
\* ready; nothing is drawn unless the game is being played.
handleRender(g) ==
  IF g.status # "playing"
  THEN [drawn |-> FALSE, player |-> g.player, currentLevel |-> g.currentLevel]
  ELSE [drawn |-> TRUE, player |-> g.player, currentLevel |-> g.currentLevel]

handleStartGame(g) ==
  [initializeLevel(g, 0, FALSE) EXCEPT !.elapsedTime = 0, !.status = "playing",
                                       !.gameLoop = GameLoop_start(@)]

handleResume(g) == [g EXCEPT !.status = "playing", !.gameLoop = GameLoop_resume(@)]

handlePause(g) == [g EXCEPT !.status = "paused", !.gameLoop = GameLoop_pause(@)]

handleQuit(g) == [g EXCEPT !.status = "menu", !.gameLoop = GameLoop_stop(@)]

handleRestart(g) == handleStartGame([g EXCEPT !.gameLoop = GameLoop_stop(@)])

\* What localStorage.getItem(SAVE_KEY) returns: null, or the text kept.
NoSave == [found |-> FALSE, text |-> NotJson]

\* The text handleSave hands to localStorage.setItem.
handleSave(g, now) ==
  [found |-> TRUE,
   text |-> serialize([status |-> "playing", player |-> g.player,
                       enemies |-> g.enemies, items |-> g.items,
                       currentLevel |-> g.currentLevel, levelMap |-> levelMapOf(g),
                       elapsedTime |-> g.elapsedTime], now)]

\* A handleLoad that resumes the loop it finds running.
handleLoadResuming(g, saveData) ==
  IF ~saveData.found \/ deserialize(saveData.text, createDefaultGameState).isNull
  THEN g
  ELSE Only({IF loadedState.currentLevel < 0
                \/ loadedState.currentLevel >= Len(GAME_LEVELS)
             THEN [g EXCEPT !.player = loadedState.player]
             ELSE Only({[g EXCEPT
                           !.currentLevel = loadedState.currentLevel,
                           !.player = loadedState.player,
                           !.enemies = spawnAfterClear(g.nextEnemyId, level.enemySpawns),
                           !.nextEnemyId = @ + Len(level.enemySpawns),
                           !.items = createItemsFromSpawns(g.itemIdCounter, level.items),
                           !.itemIdCounter = @ + Len(level.items),
                           !.elapsedTime = loadedState.elapsedTime,
                           !.status = "playing",
                           !.gameLoop = GameLoop_resume(GameLoop_start(@))] :
                        level \in {GAME_LEVELS[loadedState.currentLevel + 1]}}) :
             loadedState \in {deserialize(saveData.text, createDefaultGameState).state}})

\* The save is restored into a default state, which has no enemies and no
\* items: loadedState.items is empty, so no new item is marked collected.
\* With a level that is not in GAME_LEVELS, reading its enemySpawns
\* throws after the player has been assigned.
handleLoad(g, saveData) ==
  IF ~saveData.found \/ deserialize(saveData.text, createDefaultGameState).isNull
  THEN g
  ELSE Only({IF loadedState.currentLevel < 0
                \/ loadedState.currentLevel >= Len(GAME_LEVELS)
             THEN [g EXCEPT !.player = loadedState.player]
             ELSE Only({[g EXCEPT
                           !.currentLevel = loadedState.currentLevel,
                           !.player = loadedState.player,
                           !.enemies = spawnAfterClear(g.nextEnemyId, level.enemySpawns),
                           !.nextEnemyId = @ + Len(level.enemySpawns),
                           !.items =
                             [i \in 1 .. Len(level.items) |->
                                [createItemsFromSpawns(g.itemIdCounter, level.items)[i]
                                   EXCEPT !.collected =
                                     \E j \in DOMAIN loadedState.items :
                                       /\ loadedState.items[j].collected
                                       /\ loadedState.items[j].id
                                            = createItemsFromSpawns(g.itemIdCounter,
                                                                    level.items)[i].id]],
                           !.itemIdCounter = @ + Len(level.items),
                           !.elapsedTime = loadedState.elapsedTime,
                           !.status = "playing",
                           !.gameLoop = GameLoop_start(@)] :
                        level \in {GAME_LEVELS[loadedState.currentLevel + 1]}}) :
             loadedState \in {deserialize(saveData.text, createDefaultGameState).state}})

\* The Escape key.
handleKeyDownEscape(g) ==
  IF g.status = "playing" THEN handlePause(g)
  ELSE IF g.status = "paused" THEN handleResume(g)
  ELSE g

----------------------------------------------------------------------------
(* The collision system driven by a sequence of moves *)

VARIABLES cLevel, cRadius, cTo, cPos, cVia, cMoves

cvars == <<cLevel, cRadius, cTo, cPos, cVia, cMoves>>

\* The raycaster: the level, the configuration, the player's pose, the
\* function called last and the rays it returned.
VARIABLES rLevel, rConfig, rPos, rRot, rOp, rays

rvars == <<rLevel, rConfig, rPos, rRot, rOp, rays>>

\* The enemies: the list, the player and frame time of the last update, the
\* last operation with its arguments and return value, and the number of
\* operations so far.
VARIABLES enemies, ePlayer, eDt, eOp, eArg, eRet, eSteps

evars == <<enemies, ePlayer, eDt, eOp, eArg, eRet, eSteps>>

\* The game loop on its own: its fields, the time of the last frame, the
\* last call, the callbacks that call invoked with the deltaTime given to
\* onUpdate, and the number of calls so far.  lSince and lHeld remember the
\* calls made: lSince is "reset" when start() on a stopped loop or resume()
\* on a running one came after the last update, "call" when only other
\* start() or resume() calls did, "update" otherwise; lHeld is TRUE from a
\* pause() on a running loop until the next resume() or stop().  lStep is
\* the time between the last frame and the one before, and lFirst what
\* lSince was when the last frame began.
VARIABLES lLoop, lNow, lOp, lCalls, lDelta, lStep, lSince, lFirst, lHeld, lEvents

lvars == <<lLoop, lNow, lOp, lCalls, lDelta, lStep, lSince, lFirst, lHeld, lEvents>>

\* The game: the state of the component, the time of the last frame, the
\* last event with the keys held during it, the callbacks it invoked, the
\* position the player asked for, what was given to the renderer, the
\* number of events so far, and what localStorage keeps under SAVE_KEY.
VARIABLES game, gNow, gOp, gInput, gCalls, gDesired, gRender, gEvents, gStorage

gvars == <<game, gNow, gOp, gInput, gCalls, gDesired, gRender, gEvents, gStorage>>

\* The player module: a player and an enemy, the last function applied with
\* its argument and whether it succeeded, and the number of calls so far.
VARIABLES pPlayer, pFoe, pOp, pArg, pRet, pSteps, pItem

pvars == <<pPlayer, pFoe, pOp, pArg, pRet, pSteps, pItem>>

\* The tile queries: the level and the coordinates asked about, and the
\* answers of the functions.
VARIABLES tLevel, tX, tY, tOut

tvars == <<tLevel, tX, tY, tOut>>

\* The game loop with the browser's frame requests: the loop and the
\* requests, the callback the loop is inside of, the last call, whether
\* stop() has been called with no start() since, the time and the number
\* of events.
VARIABLES fFrames, fPc, fOp, fStopped, fNow, fEvents

fvars == <<fFrames, fPc, fOp, fStopped, fNow, fEvents>>

\* The game state manager: its state, the text last serialized and the
\* state it was made from, the text last handed in, which text that was
\* and the state before that call, the call, what it returned, and the
\* number of calls.
VARIABLES mState, mStored, mFrom, mIn, mGiven, mBefore, mOp, mRet, mEvents

mvars == <<mState, mStored, mFrom, mIn, mGiven, mBefore, mOp, mRet, mEvents>>

\* The input handler: the handler, the keys that are down, the last event
\* with its key, and the number of events.
VARIABLES kHandler, kHeld, kOp, kKey, kEvents

kvars == <<kHandler, kHeld, kOp, kKey, kEvents>>

\* The sprite renderer: the player's rotation, the sprite, what the
\* projection returned for it, the last step, and the number of steps.
VARIABLES vRotation, vSprite, vData, vOp, vEvents

vvars == <<vRotation, vSprite, vData, vOp, vEvents>>

\* The variables of the specifications that follow the first seven.
more == <<fvars, mvars, kvars, vvars>>

vars == <<cvars, rvars, evars, lvars, gvars, pvars, tvars, more>>

\* Desired positions lie on the quarter-cell lattice up to CoordHi quarters;
\* a sequence of moves starts at the centre of a cell, wall or not.
CoordHi == 7
Quarter == Scale \div 4
Coords == {k * Quarter : k \in 1 .. CoordHi}
Positions == {vec2(x, y) : x \in Coords, y \in Coords}
Centres == {p \in Positions : p.x % Scale = 2 * Quarter /\ p.y % Scale = 2 * Quarter}

\* Moves made one after the other, each from the result of the one before.
MaxMoves == 2

Radii == {DEFAULT_ENTITY_RADIUS, 450}

\* The parts of the state that a specification does not drive.
CollisionIdle ==
  /\ cLevel = 1 /\ cRadius = DEFAULT_ENTITY_RADIUS /\ cPos = vec2(0, 0)
  /\ cTo = vec2(0, 0) /\ cVia = "none" /\ cMoves = 0

RayIdle ==
  /\ rLevel = 1 /\ rConfig = DEFAULT_RAYCAST_CONFIG /\ rPos = vec2(0, 0)
  /\ rRot = 0 /\ rOp = "none" /\ rays = <<>>

EnemyIdle ==
  /\ enemies = <<>> /\ ePlayer = [position |-> vec2(0, 0)] /\ eDt = 0
  /\ eOp = "none" /\ eArg = [id |-> "", amount |-> 0] /\ eRet = 0 /\ eSteps = 0

LoopIdle ==
  /\ lLoop = GameLoop_new /\ lNow = 0 /\ lOp = "none" /\ lCalls = <<>>
  /\ lDelta = 0 /\ lStep = 0 /\ lSince = "update" /\ lFirst = "update"
  /\ lHeld = FALSE /\ lEvents = 0

NotDrawn == [drawn |-> FALSE, player |-> GameContainer_new.player, currentLevel |-> 0]

GameIdle ==
  /\ game = GameContainer_new /\ gNow = 0 /\ gOp = "none" /\ gInput = {}
  /\ gCalls = <<>> /\ gDesired = GameContainer_new.player.position
  /\ gRender = NotDrawn /\ gEvents = 0 /\ gStorage = NoSave

\* No item has been offered to the player.
NoItem == createItem(0, "key", vec2(0, 0), 0)

PlayerIdle ==
  /\ pPlayer = createPlayer(vec2(0, 0), 0)
  /\ pFoe = createEnemy("enemy_0", vec2(0, 0), "zombie", DEFAULT_ENEMY_CONFIG)
  /\ pOp = "none" /\ pArg = 0 /\ pRet = TRUE /\ pSteps = 0
  /\ pItem = NoItem

\* No tile has been asked for.
NotAsked ==
  [asked |-> FALSE, isWall |-> FALSE, levelIsWall |-> FALSE, isWallTile |-> FALSE,
   getTile |-> 0, levelGetTile |-> 0, getTileValue |-> 0]

TileIdle == tLevel = 1 /\ tX = 0 /\ tY = 0 /\ tOut = NotAsked

\* The parts that the specifications of the collision system, the
\* raycaster and the enemies all leave alone.
FramesIdle ==
  /\ fFrames = Frames_new /\ fPc = "idle" /\ fOp = "none" /\ fStopped = FALSE
  /\ fNow = 0 /\ fEvents = 0

SaveIdle ==
  /\ mState = GameStateManager_new /\ mStored = NotJson
  /\ mFrom = GameStateManager_new /\ mIn = NotJson /\ mGiven = "none"
  /\ mBefore = GameStateManager_new /\ mOp = "none" /\ mRet = FALSE
  /\ mEvents = 0

InputIdle ==
  /\ kHandler = InputHandler_new /\ kHeld = {} /\ kOp = "none" /\ kKey = ""
  /\ kEvents = 0

NoSprite == [position |-> vec2(0, 0), spriteId |-> "none", scale |-> Scale]

SpriteIdle ==
  /\ vRotation = 0 /\ vSprite = NoSprite /\ vData = NoRenderData /\ vOp = "none"
  /\ vEvents = 0

MoreIdle == FramesIdle /\ SaveIdle /\ InputIdle /\ SpriteIdle

RestIdle == LoopIdle /\ GameIdle /\ PlayerIdle /\ TileIdle /\ MoreIdle

rest == <<lvars, gvars, pvars, tvars, more>>

CollisionInit ==
  /\ cLevel \in 1 .. Len(TestLevels)
  /\ cRadius \in Radii
  /\ cPos \in Centres
  /\ cTo = cPos
  /\ cVia = "none"
  /\ cMoves = 0
  /\ RayIdle /\ EnemyIdle /\ RestIdle

Move(desired) ==
  LET out == MoveOutcome(cPos, desired, cRadius, TestLevels[cLevel])
  IN /\ cMoves < MaxMoves
     /\ cMoves' = cMoves + 1
     /\ cTo' = desired
     /\ cPos' = out.pos
     /\ cVia' = out.via
     /\ UNCHANGED <<cLevel, cRadius, rvars, evars, rest>>

CollisionNext == \E desired \in Positions : Move(desired)

SpecCollision == CollisionInit /\ [][CollisionNext]_vars

----------------------------------------------------------------------------
(* The raycaster driven frame by frame *)

\* Columns of the screen and the render distances of the configurations.
ScreenWidth == 4
RenderDistances == {500, 1500, DEFAULT_RAYCAST_CONFIG.maxRenderDistance}
Configs ==
  {[DEFAULT_RAYCAST_CONFIG EXCEPT !.screenWidth = ScreenWidth, !.maxRenderDistance = d] :
     d \in RenderDistances}

\* Player rotations: the multiples of an eighth of a turn.
Rotations == {k * (FullTurn \div 8) : k \in 0 .. 7}

RayInit ==
  /\ rLevel \in 1 .. Len(TestLevels)
  /\ rConfig \in Configs
  /\ rPos \in Centres
  /\ rRot = 0
  /\ rOp = "none"
  /\ rays = <<>>
  /\ CollisionIdle /\ EnemyIdle /\ RestIdle

\* Between two frames the player moves by at most one lattice step on each
\* axis and turns by at most one eighth of a turn.
Nearby(position, rotation) ==
  /\ position \in Positions
  /\ Abs(position.x - rPos.x) <= Quarter
  /\ Abs(position.y - rPos.y) <= Quarter
  /\ \E turn \in -1 .. 1 : rotation = (rRot + turn * (FullTurn \div 8)) % FullTurn

\* A frame: the player stands at position with rotation and all rays are cast.
CastAllRays(position, rotation) ==
  /\ Nearby(position, rotation)
  /\ rPos' = position
  /\ rRot' = rotation
  /\ rOp' = "castAllRays"
  /\ rays' = castAllRays(position, rotation, rConfig, TestLevels[rLevel])
  /\ UNCHANGED <<rLevel, rConfig, cvars, evars, rest>>

\* A single ray cast with the configuration's render distance.
CastRay(position, angle) ==
  /\ Nearby(position, angle)
  /\ rPos' = position
  /\ rRot' = angle
  /\ rOp' = "castRay"
  /\ rays' = <<castRay(position, angle, TestLevels[rLevel], rConfig.maxRenderDistance)>>
  /\ UNCHANGED <<rLevel, rConfig, cvars, evars, rest>>

RayNext ==
  \E position \in Positions, rotation \in Rotations :
    \/ CastAllRays(position, rotation)
    \/ CastRay(position, rotation)

SpecRay == RayInit /\ [][RayNext]_vars

----------------------------------------------------------------------------
(* The enemies of one level driven operation by operation *)

\* A level of ten by three cells with one wall cell, two zombies spawned
\* next to each other in its first cell.
Arena ==
  [width |-> 10, height |-> 3,
   grid |-> << <<0, 0, 0, 0, 0, 0, 0, 0, 0, 0>>,
               <<0, 1, 0, 0, 0, 0, 0, 0, 0, 0>>,
               <<0, 0, 0, 0, 0, 0, 0, 0, 0, 0>> >>,
   playerSpawn |-> vec2(2500, 500),
   enemySpawns |-> << [position |-> vec2(500, 500), enemyType |-> "zombie"],
                      [position |-> vec2(900, 500), enemyType |-> "zombie"] >>,
   items |-> <<>>,
   exitPoint |-> vec2(9500, 2500)]

\* Where the player stands when the enemies are updated.
PlayerSpots ==
  {vec2(2500, 500), vec2(2000, 500), vec2(2020, 1020), vec2(2500, 1500),
   vec2(500, 2500), vec2(8500, 500), vec2(9500, 1500)}

\* Frame times in milliseconds, damage amounts, and the ids asked for.
DeltaTimes == {50}
Amounts == {-5, 20, 50}
Ids == {"enemy_0", "enemy_1", "enemy_7"}

\* Operations applied one after the other.
MaxSteps == 2

\* The health a spawned enemy is configured with.
SpawnHealths == {DEFAULT_ENEMY_CONFIG.health, 0}

\* The enemies are those of the level, or the same two spawned one by one
\* with the second one's health configured.
EnemyInit ==
  /\ \/ enemies = spawnFromLevel(<<>>, Arena.enemySpawns)
     \/ \E h \in SpawnHealths :
          enemies = spawnEnemy(spawnEnemy(<<>>, Arena.enemySpawns[1].position, "zombie",
                                          DEFAULT_ENEMY_CONFIG),
                               Arena.enemySpawns[2].position, "zombie",
                               [DEFAULT_ENEMY_CONFIG EXCEPT !.health = h])
  /\ ePlayer = [position |-> Arena.playerSpawn]
  /\ eDt = 0
  /\ eOp = "none"
  /\ eArg = [id |-> "", amount |-> 0]
  /\ eRet = 0
  /\ eSteps = 0
  /\ CollisionIdle /\ RayIdle /\ RestIdle

\* The bookkeeping every operation shares.
Operation(op, id, amount) ==
  /\ eSteps < MaxSteps
  /\ eSteps' = eSteps + 1
  /\ eOp' = op
  /\ eArg' = [id |-> id, amount |-> amount]
  /\ UNCHANGED <<cvars, rvars, rest>>

ManagerUpdate(position, deltaTime) ==
  LET result == EnemyManager_update(enemies, [position |-> position], Arena, deltaTime)
  IN /\ Operation("update", "", 0)
     /\ enemies' = result.enemies
     /\ eRet' = result.totalDamageToPlayer
     /\ ePlayer' = [position |-> position]
     /\ eDt' = deltaTime

UpdateAll(position, deltaTime) ==
  LET results == updateAllEnemies(enemies, [position |-> position], Arena, deltaTime)
  IN /\ Operation("updateAllEnemies", "", 0)
     /\ enemies' = [i \in 1 .. Len(enemies) |-> results[i].enemy]
     /\ eRet' = SumDamage(results)
     /\ ePlayer' = [position |-> position]
     /\ eDt' = deltaTime

UpdateSingle(id, position, deltaTime) ==
  /\ Operation("updateSingleEnemy", id, 0)
  /\ enemies' = updateSingleEnemy(enemies, id, [position |-> position], Arena, deltaTime)
  /\ eRet' = 0
  /\ ePlayer' = [position |-> position]
  /\ eDt' = deltaTime

DamageEnemy(id, amount) ==
  LET result == damageEnemy(enemies, id, amount)
  IN /\ Operation("damageEnemy", id, amount)
     /\ enemies' = result.enemies
     /\ eRet' = result.scoreIncrease
     /\ UNCHANGED <<ePlayer, eDt>>

\* takeDamage applied to one enemy of the list.
TakeDamage(id, amount) ==
  /\ Operation("takeDamage", id, amount)
  /\ enemies' = [i \in 1 .. Len(enemies) |->
                   IF enemies[i].id = id THEN takeDamage(enemies[i], amount)
                   ELSE enemies[i]]
  /\ eRet' = 0
  /\ UNCHANGED <<ePlayer, eDt>>

EnemyNext ==
  \/ \E position \in PlayerSpots, deltaTime \in DeltaTimes :
       \/ ManagerUpdate(position, deltaTime)
       \/ UpdateAll(position, deltaTime)
       \/ \E id \in Ids : UpdateSingle(id, position, deltaTime)
  \/ \E id \in Ids, amount \in Amounts :
       \/ DamageEnemy(id, amount)
       \/ TakeDamage(id, amount)

SpecEnemy == EnemyInit /\ [][EnemyNext]_vars

----------------------------------------------------------------------------
(* The game loop driven call by call, with callbacks that do nothing *)

\* Calls of start, stop, pause and resume and frames, one after the other.
MaxCalls == 5

\* The time between two frames, in milliseconds.
FrameSteps == {0, 16, 250}

LoopInit ==
  /\ LoopIdle
  /\ CollisionIdle /\ RayIdle /\ EnemyIdle /\ GameIdle /\ PlayerIdle /\ TileIdle /\ MoreIdle

\* The bookkeeping every call shares.
LoopCall(op) ==
  /\ lEvents < MaxCalls
  /\ lEvents' = lEvents + 1
  /\ lOp' = op
  /\ UNCHANGED <<cvars, rvars, evars, gvars, pvars, tvars, more>>

\* lSince after a start() or resume() that moved the loop or not.
Called(moved) ==
  IF moved THEN "reset" ELSE IF lSince = "update" THEN "call" ELSE lSince

LoopStart ==
  /\ LoopCall("start")
  /\ lLoop' = GameLoop_start(lLoop)
  /\ lSince' = Called(~lLoop.isRunning)
  /\ lCalls' = <<>> /\ lDelta' = 0
  /\ UNCHANGED <<lNow, lStep, lFirst, lHeld>>

LoopStop ==
  /\ LoopCall("stop")
  /\ lLoop' = GameLoop_stop(lLoop)
  /\ lHeld' = FALSE
  /\ lCalls' = <<>> /\ lDelta' = 0
  /\ UNCHANGED <<lNow, lStep, lFirst, lSince>>

LoopPause ==
  /\ LoopCall("pause")
  /\ lLoop' = GameLoop_pause(lLoop)
  /\ lHeld' = (lHeld \/ lLoop.isRunning)
  /\ lCalls' = <<>> /\ lDelta' = 0
  /\ UNCHANGED <<lNow, lStep, lFirst, lSince>>

LoopResume ==
  /\ LoopCall("resume")
  /\ lLoop' = GameLoop_resume(lLoop)
  /\ lSince' = Called(lLoop.isRunning)
  /\ lHeld' = FALSE
  /\ lCalls' = <<>> /\ lDelta' = 0
  /\ UNCHANGED <<lNow, lStep, lFirst>>

\* The browser runs the pending frame request at a time step later.
LoopFrame(step) ==
  LET frame == GameLoop_loop(lLoop, lNow + step)
  IN /\ lLoop.animationFrameId # 0
     /\ lNow + step > 0
     /\ LoopCall("frame")
     /\ lNow' = lNow + step
     /\ lStep' = step
     /\ lFirst' = lSince
     /\ lLoop' = frame.loop
     /\ lCalls' = frame.calls
     /\ lDelta' = frame.deltaTime
     /\ lSince' = IF frame.calls # <<>> THEN "update" ELSE lSince
     /\ UNCHANGED lHeld

LoopNext ==
  \/ LoopStart
  \/ LoopStop
  \/ LoopPause
  \/ LoopResume
  \/ \E step \in FrameSteps : LoopFrame(step)

SpecLoop == LoopInit /\ [][LoopNext]_vars

----------------------------------------------------------------------------
(* The game driven event by event *)

\* Frames and menu events, one after the other.
MaxEvents == 2

\* The time between two frames, in milliseconds, and the keys held during
\* a frame.
GameSteps == {16, 250}
InputSets ==
  {{}, {"moveForward"}, {"moveForward", "fire"}, {"turnLeft"},
   {"moveBackward", "turnRight"}}

\* Where a game in progress is taken up: the level with the player's
\* position and rotation, one step from the exit of the laboratory, one
\* step from the exit of the dungeon, and one step from the west wall of
\* the laboratory.
Spots ==
  {[currentLevel |-> 0, position |-> vec2(12900, 13500), rotation |-> 0],
   [currentLevel |-> 1, position |-> vec2(17900, 18500), rotation |-> 0],
   [currentLevel |-> 0, position |-> vec2(1400, 2500), rotation |-> HalfTurn]}

\* The health the player is left with.
Healths == {DEFAULT_STATS.health, 10}

\* The time at which a game in progress is taken up.
Played == 60000

\* A game in progress: the level was entered by handleStartGame or from the
\* level before it, the player has walked to the spot and has the health
\* left, and when followed the first enemy of the level has pursued the
\* player to 0.9 cells behind.
InProgress(spot, health, followed) ==
  LET level == GAME_LEVELS[spot.currentLevel + 1]
      entered == IF spot.currentLevel = 0
                 THEN handleStartGame(GameContainer_new)
                 ELSE initializeLevel(handleStartGame(GameContainer_new),
                                      spot.currentLevel, TRUE)
      behind == subtract(spot.position, multiply(fromAngle(spot.rotation), 900))
  IN [entered EXCEPT
        !.status = "playing",
        !.player = [@ EXCEPT !.position = spot.position, !.rotation = spot.rotation,
                             !.stats.health = health],
        !.enemies = IF followed
                    THEN [@ EXCEPT ![1].position = behind, ![1].state = "pursuing"]
                    ELSE @,
        !.elapsedTime = Played,
        !.gameLoop = [@ EXCEPT !.lastTimestamp = Played]]

\* The save an earlier visit left behind: made in the pause menu of the
\* game at the first spot, with the first item collected.
EarlierSave ==
  handleSave([InProgress([currentLevel |-> 0, position |-> vec2(12900, 13500),
                          rotation |-> 0], 10, TRUE) EXCEPT
                !.items = [i \in DOMAIN @ |->
                             IF i = 1 THEN markAsCollected(@[i]) ELSE @[i]]],
             SaveClock)

NothingDrawn(g) == [drawn |-> FALSE, player |-> g.player, currentLevel |-> g.currentLevel]

GameInit ==
  /\ \/ game = GameContainer_new /\ gNow = 0
     \/ \E spot \in Spots, health \in Healths, followed \in BOOLEAN :
          game = InProgress(spot, health, followed) /\ gNow = Played
  /\ gOp = "none" /\ gInput = {} /\ gCalls = <<>>
  /\ gDesired = game.player.position
  /\ gRender = NothingDrawn(game)
  /\ gEvents = 0
  /\ gStorage \in {NoSave, EarlierSave}
  /\ CollisionIdle /\ RayIdle /\ EnemyIdle /\ LoopIdle /\ PlayerIdle /\ TileIdle /\ MoreIdle

\* The bookkeeping every event shares.
GameEvent(op) ==
  /\ gEvents < MaxEvents
  /\ gEvents' = gEvents + 1
  /\ gOp' = op
  /\ UNCHANGED <<cvars, rvars, evars, lvars, pvars, tvars, more>>

\* An event of the menu or the keyboard: the handler runs, no frame does.
MenuEvent(op, after) ==
  /\ GameEvent(op)
  /\ game' = after
  /\ gInput' = {} /\ gCalls' = <<>>
  /\ gDesired' = after.player.position
  /\ gRender' = NothingDrawn(after)
  /\ UNCHANGED <<gNow, gStorage>>

StartGame == game.status = "menu" /\ MenuEvent("startGame", handleStartGame(game))

Pause == game.status = "playing" /\ MenuEvent("pause", handlePause(game))

Resume == game.status = "paused" /\ MenuEvent("resume", handleResume(game))

Quit ==
  /\ game.status \in {"paused", "gameOver", "victory"}
  /\ MenuEvent("quit", handleQuit(game))

Restart ==
  /\ game.status \in {"gameOver", "victory"}
  /\ MenuEvent("restart", handleRestart(game))

\* SAVE GAME of the pause menu.
Save ==
  /\ game.status = "paused"
  /\ GameEvent("save")
  /\ gStorage' = handleSave(game, SaveClock + gNow)
  /\ gInput' = {} /\ gCalls' = <<>>
  /\ UNCHANGED <<game, gNow, gDesired, gRender>>

\* LOAD GAME of the main menu and of the pause menu.
Load ==
  /\ game.status \in {"menu", "paused"}
  /\ MenuEvent("load", handleLoad(game, gStorage))

\* The Escape key is pressed, whatever the game shows.
Escape == MenuEvent("escape", handleKeyDownEscape(game))

\* The browser runs the pending frame request a time step later, with the
\* keys of activeActions held: GameLoop.loop, then handleUpdate and
\* handleRender when the loop is not paused.
Frame(step, activeActions) ==
  /\ game.gameLoop.animationFrameId # 0
  /\ GameEvent("frame")
  /\ UNCHANGED gStorage
  /\ gNow' = gNow + step
  /\ gInput' = activeActions
  /\ \E frame \in {GameLoop_loop(game.gameLoop, gNow + step)} :
       /\ gCalls' = frame.calls
       /\ IF frame.calls = <<>>
          THEN /\ game' = [game EXCEPT !.gameLoop = frame.loop]
               /\ gDesired' = game.player.position
               /\ gRender' = NothingDrawn(game)
          ELSE \E updated \in {handleUpdate([game EXCEPT !.gameLoop = frame.loop],
                                            activeActions, frame.deltaTime)} :
                 /\ game' = updated
                 /\ gDesired' = IF game.status = "playing"
                                THEN MovedPlayer(game.player, activeActions,
                                                 frame.deltaTime).position
                                ELSE game.player.position
                 /\ gRender' = handleRender(updated)

GameNext ==
  \/ StartGame
  \/ Pause
  \/ Resume
  \/ Quit
  \/ Restart
  \/ Save
  \/ Load
  \/ Escape
  \/ \E step \in GameSteps, activeActions \in InputSets : Frame(step, activeActions)

SpecGame == GameInit /\ [][GameNext]_vars

----------------------------------------------------------------------------
(* The player's and an enemy's health and ammunition, call by call *)

MaxOps == 3

\* The amounts of damage, healing and ammunition passed in.
StatAmounts == {-10, 0, 7, 40, 120}

\* The player as createPlayer makes it, or as earlier calls have left it:
\* hurt, and with the magazine nearly or wholly fired.
PlayerInit ==
  /\ \E health \in {DEFAULT_STATS.health, 10}, ammunition \in {DEFAULT_STATS.ammunition, 1, 0} :
       pPlayer = [createPlayer(vec2(2500, 2500), 0) EXCEPT
                    !.stats.health = health, !.stats.ammunition = ammunition]
  /\ pFoe = createEnemy("enemy_0", vec2(6500, 6500), "zombie", DEFAULT_ENEMY_CONFIG)
  /\ pOp = "none" /\ pArg = 0 /\ pRet = TRUE /\ pSteps = 0
  /\ pItem = NoItem
  /\ CollisionIdle /\ RayIdle /\ EnemyIdle /\ LoopIdle /\ GameIdle /\ TileIdle /\ MoreIdle

PlayerCall(op, amount, player, foe, ret) ==
  /\ pSteps < MaxOps
  /\ pSteps' = pSteps + 1
  /\ pOp' = op /\ pArg' = amount /\ pRet' = ret
  /\ pPlayer' = player /\ pFoe' = foe
  /\ UNCHANGED <<pItem, cvars, rvars, evars, lvars, gvars, tvars, more>>

PlayerTakeDamage(amount) ==
  PlayerCall("takeDamage", amount, Player_takeDamage(pPlayer, amount), pFoe, TRUE)

PlayerHeal(amount) == PlayerCall("heal", amount, heal(pPlayer, amount), pFoe, TRUE)

PlayerFire ==
  \E result \in {fire(pPlayer)} :
    PlayerCall("fire", 0, result.player, pFoe, result.success)

PlayerAddAmmunition(amount) ==
  PlayerCall("addAmmunition", amount, addAmmunition(pPlayer, amount), pFoe, TRUE)

EnemyTakeDamage(amount) ==
  PlayerCall("enemyTakeDamage", amount, pPlayer, takeDamage(pFoe, amount), TRUE)

\* The values of the items offered, and how far from the player they lie.
ItemValues == {10, 25, 60}
ItemOffsets == {0, COLLECTION_RADIUS, COLLECTION_RADIUS + 1}

\* collectItem on an item of the type and value, lying offset to the east
\* of the player; pItem is the item as it was offered.
PlayerCollect(type, value, offset) ==
  /\ pSteps < MaxOps
  /\ pSteps' = pSteps + 1
  /\ \E item \in {createItem(pSteps + 1, type, add(pPlayer.position, vec2(offset, 0)), value)} :
       \E result \in {collectItem(pPlayer, item, COLLECTION_RADIUS)} :
         /\ pItem' = item
         /\ pPlayer' = result.player
         /\ pRet' = result.collected
  /\ pOp' = "collectItem" /\ pArg' = value
  /\ UNCHANGED <<pFoe, cvars, rvars, evars, lvars, gvars, tvars, more>>

PlayerNext ==
  \/ \E type \in {"health", "ammo", "key"}, value \in ItemValues, offset \in ItemOffsets :
       PlayerCollect(type, value, offset)
  \/ \E amount \in StatAmounts : PlayerTakeDamage(amount)
  \/ \E amount \in StatAmounts : PlayerHeal(amount)
  \/ PlayerFire
  \/ \E amount \in StatAmounts : PlayerAddAmmunition(amount)
  \/ \E amount \in StatAmounts : EnemyTakeDamage(amount)

SpecPlayer == PlayerInit /\ [][PlayerNext]_vars

----------------------------------------------------------------------------
(* The tile queries of the three modules, asked about one coordinate *)

\* The maps asked about.
TileLevels == TestLevels \o <<LEVEL_LAB>>

\* How far outside the grid a coordinate lies, in thousandths of a cell.
TileReach == 1700

\* The coordinates asked about along an axis of n cells: outside on either
\* side, on the edges, and inside.
TileCoords(n) ==
  {-TileReach, -1, 0, Scale \div 2, n * Scale - 1, n * Scale, n * Scale + TileReach}

TileInit ==
  /\ TileIdle
  /\ CollisionIdle /\ RayIdle /\ EnemyIdle /\ LoopIdle /\ GameIdle /\ PlayerIdle /\ MoreIdle

\* Every query is asked about the coordinate (x, y) of the level; the
\* raycaster asks about the cell the coordinate lies in, as its DDA does.
Query(l, x, y) ==
  /\ tLevel' = l /\ tX' = x /\ tY' = y
  /\ tOut' = [asked |-> TRUE,
              isWall |-> isWall(x, y, TileLevels[l]),
              levelIsWall |-> Level_isWall(x, y, TileLevels[l]),
              isWallTile |-> isWallTile(Floor(x), Floor(y), TileLevels[l]),
              getTile |-> getTile(x, y, TileLevels[l]),
              levelGetTile |-> Level_getTile(x, y, TileLevels[l]),
              getTileValue |-> getTileValue(Floor(x), Floor(y), TileLevels[l])]
  /\ UNCHANGED <<cvars, rvars, evars, lvars, gvars, pvars, more>>

TileNext ==
  \E l \in 1 .. Len(TileLevels) :
    \E x \in TileCoords(TileLevels[l].width), y \in TileCoords(TileLevels[l].height) :
      Query(l, x, y)

SpecTile == TileInit /\ [][TileNext]_vars

----------------------------------------------------------------------------
(* The game loop called from outside and from inside its callbacks *)

\* Calls, frames and returns of callbacks, one after the other.
MaxFrameEvents == 6

\* The time between two events, in milliseconds.
FrameGap == 16

\* The state that is the same for every specification but this one.
FramesOnly ==
  /\ CollisionIdle /\ RayIdle /\ EnemyIdle /\ LoopIdle /\ GameIdle /\ PlayerIdle
  /\ TileIdle /\ SaveIdle /\ InputIdle /\ SpriteIdle

FramesInit == FramesIdle /\ FramesOnly

FramesEvent(op) ==
  /\ fEvents < MaxFrameEvents
  /\ fEvents' = fEvents + 1
  /\ fNow' = fNow + FrameGap
  /\ fOp' = op
  /\ UNCHANGED <<cvars, rvars, evars, lvars, gvars, pvars, tvars, mvars, kvars, vvars>>

\* start(), stop(), pause() and resume() are called between frames
\* (fPc = "idle") or by the callback the loop is inside of.
FramesStart ==
  /\ FramesEvent("start")
  /\ fFrames' = Frames_start(fFrames)
  /\ fStopped' = FALSE
  /\ UNCHANGED fPc

FramesStop ==
  /\ FramesEvent("stop")
  /\ fFrames' = Frames_stop(fFrames)
  /\ fStopped' = TRUE
  /\ UNCHANGED fPc

FramesPause ==
  /\ FramesEvent("pause")
  /\ fFrames' = Frames_pause(fFrames)
  /\ UNCHANGED <<fPc, fStopped>>

FramesResume ==
  /\ FramesEvent("resume")
  /\ fFrames' = Frames_resume(fFrames)
  /\ UNCHANGED <<fPc, fStopped>>

\* The browser runs a pending request while no callback is running: loop()
\* as far as its call of onUpdate.
FramesBegin(id) ==
  /\ fPc = "idle"
  /\ id \in fFrames.pending
  /\ \E frame \in {Frames_loop(fFrames, id, fNow + FrameGap)} :
       /\ fFrames' = frame.frames
       /\ IF frame.calls = <<>>
          THEN FramesEvent("frame") /\ fPc' = "idle"
          ELSE FramesEvent("onUpdate") /\ fPc' = "onUpdate"
  /\ UNCHANGED fStopped

\* onUpdate returns and loop() calls onRender.
UpdateReturns ==
  /\ fPc = "onUpdate"
  /\ FramesEvent("onRender")
  /\ fPc' = "onRender"
  /\ UNCHANGED <<fFrames, fStopped>>

\* onRender returns, and loop() with it.
RenderReturns ==
  /\ fPc = "onRender"
  /\ FramesEvent("return")
  /\ fPc' = "idle"
  /\ UNCHANGED <<fFrames, fStopped>>

FramesNext ==
  \/ FramesStart
  \/ FramesStop
  \/ FramesPause
  \/ FramesResume
  \/ \E id \in 1 .. MaxFrameEvents : FramesBegin(id)
  \/ UpdateReturns
  \/ RenderReturns

SpecFrames == FramesInit /\ [][FramesNext]_vars

----------------------------------------------------------------------------
(* The game state manager driven call by call *)

MaxSaveEvents == 3

\* The times added by update.
SaveSteps == {16}

\* The manager is made without a state or with the state of a game that
\* has entered the laboratory, where it may have collected the first item.
EnteredLab(status) ==
  [status |-> status, player |-> createPlayer(LEVEL_LAB.playerSpawn, 0),
   enemies |-> spawnAfterClear(0, LEVEL_LAB.enemySpawns),
   items |-> createItemsFromSpawns(0, LEVEL_LAB.items),
   currentLevel |-> 0, levelMap |-> LEVEL_LAB, elapsedTime |-> 0]

\* What the game does to the state between two calls of the manager.
Changes == {"hurt", "kill", "collect", "key", "pause", "next"}

Changed(m, change) ==
  CASE change = "hurt" ->
         [m EXCEPT !.player = Player_takeDamage(@, 10),
                   !.enemies = [i \in DOMAIN @ |->
                                  IF i = 1
                                  THEN [@[i] EXCEPT !.state = "pursuing",
                                                    !.position = vec2(4500, 3500)]
                                  ELSE @[i]]]
    [] change = "kill" ->
         [m EXCEPT !.enemies = [i \in DOMAIN @ |->
                                  IF i = 2 THEN takeDamage(@[i], @[i].health) ELSE @[i]]]
    [] change = "collect" ->
         IF m.items = <<>> THEN m
         ELSE Only({[m EXCEPT !.player = found.player, !.items = found.items] :
                    found \in {processItems(setPosition(m.player, m.items[1].position),
                                            m.items)}})
    [] change = "key" -> [m EXCEPT !.player = addKey(@, "key_1")]
    [] change = "pause" ->
         [m EXCEPT !.status = IF @ = "playing" THEN "paused" ELSE "playing"]
    [] change = "next" -> [m EXCEPT !.currentLevel = 1 - @]

\* One property of a parsed value replaced, or removed.
RECURSIVE Put(_, _, _)
Put(v, path, new) ==
  IF path = <<>> THEN new
  ELSE JObject([f \in DOMAIN v.value |->
                  IF f = Head(path) THEN Put(v.value[f], Tail(path), new)
                  ELSE v.value[f]])

RECURSIVE Without(_, _)
Without(v, path) ==
  IF Len(path) = 1 THEN JObject([f \in DOMAIN v.value \ {path[1]} |-> v.value[f]])
  ELSE JObject([f \in DOMAIN v.value |->
                  IF f = Head(path) THEN Without(v.value[f], Tail(path))
                  ELSE v.value[f]])

\* Texts that are not saves: no JSON at all, JSON that is no object, and a
\* save with one property of the wrong kind, out of range, or missing.
Damages ==
  {"garbage", "null", "array", "version", "timestamp", "never", "gameState",
   "player", "position", "rotation", "health", "inventory", "level", "enemy",
   "collected", "elapsed"}

Damaged(text, damage) ==
  LET Edit(path, new) == [parses |-> TRUE, value |-> Put(text.value, path, new)]
  IN CASE damage = "garbage" -> NotJson
       [] damage = "null" -> [parses |-> TRUE, value |-> JNull]
       [] damage = "array" -> [parses |-> TRUE, value |-> JArray(<<>>)]
       [] damage = "version" -> Edit(<<"version">>, JNumber(1))
       [] damage = "timestamp" ->
            [parses |-> TRUE, value |-> Without(text.value, <<"timestamp">>)]
       [] damage = "never" -> Edit(<<"timestamp">>, JInfinity)
       [] damage = "gameState" -> Edit(<<"gameState">>, JNull)
       [] damage = "player" -> Edit(<<"gameState", "player">>, JArray(<<>>))
       [] damage = "position" ->
            Edit(<<"gameState", "player", "position", "x">>, JString("1.5"))
       [] damage = "rotation" ->
            [parses |-> TRUE,
             value |-> Without(text.value, <<"gameState", "player", "rotation">>)]
       [] damage = "health" ->
            Edit(<<"gameState", "player", "stats", "health">>, JNull)
       [] damage = "inventory" ->
            Edit(<<"gameState", "player", "inventory">>, JArray(<<JNumber(1)>>))
       [] damage = "level" -> Edit(<<"gameState", "currentLevel">>, JNumber(-1))
       [] damage = "enemy" ->
            Edit(<<"gameState", "enemies">>,
                 JArray(<<JObject([id |-> JString("enemy_0"),
                                   position |-> JSON_stringifyVector(vec2(6500, 6500)),
                                   health |-> JNumber(50),
                                   state |-> JString("sleeping")])>>))
       [] damage = "collected" ->
            Edit(<<"gameState", "collectedItems">>, JString("item_1"))
       [] damage = "elapsed" -> Edit(<<"gameState", "elapsedTime">>, JNumber(-1))

\* A save edited by hand that is still a save: the health set to 1.
Edited(text) ==
  [parses |-> TRUE,
   value |-> Put(text.value, <<"gameState", "player", "stats", "health">>, JNumber(1))]

SaveOnly ==
  /\ CollisionIdle /\ RayIdle /\ EnemyIdle /\ LoopIdle /\ GameIdle /\ PlayerIdle
  /\ TileIdle /\ FramesIdle /\ InputIdle /\ SpriteIdle

SaveInit ==
  /\ mState \in {GameStateManager_new, EnteredLab("playing"), EnteredLab("paused"),
                 Changed(EnteredLab("paused"), "collect")}
  /\ mStored = NotJson /\ mFrom = GameStateManager_new /\ mIn = NotJson
  /\ mGiven = "none" /\ mBefore = mState /\ mOp = "none" /\ mRet = FALSE /\ mEvents = 0
  /\ SaveOnly

SaveEvent(op) ==
  /\ mEvents < MaxSaveEvents
  /\ mEvents' = mEvents + 1
  /\ mOp' = op
  /\ mBefore' = mState
  /\ UNCHANGED <<cvars, rvars, evars, lvars, gvars, pvars, tvars, fvars, kvars, vvars>>

\* The game assigns the state it has reached.
StateSet(change) ==
  /\ SaveEvent("set")
  /\ mState' = Changed(mState, change)
  /\ UNCHANGED <<mStored, mFrom, mIn, mGiven, mRet>>

StateInitialize ==
  /\ SaveEvent("initialize")
  /\ mState' = GameStateManager_initialize
  /\ UNCHANGED <<mStored, mFrom, mIn, mGiven, mRet>>

StateUpdate(deltaTime) ==
  /\ SaveEvent("update")
  /\ mState' = GameStateManager_update(mState, deltaTime)
  /\ UNCHANGED <<mStored, mFrom, mIn, mGiven, mRet>>

\* serialize(); the caller keeps the text.
StateSerialize ==
  /\ SaveEvent("serialize")
  /\ mStored' = GameStateManager_serialize(mState, SaveClock + mEvents)
  /\ mFrom' = mState
  /\ UNCHANGED <<mState, mIn, mGiven, mRet>>

StateDeserialize(json, given) ==
  /\ SaveEvent("deserialize")
  /\ mIn' = json /\ mGiven' = given
  /\ \E result \in {GameStateManager_deserialize(mState, json)} :
       mState' = result.state /\ mRet' = result.returns
  /\ UNCHANGED <<mStored, mFrom>>

StateValidate(json, given) ==
  /\ SaveEvent("validateState")
  /\ mIn' = json /\ mGiven' = given
  /\ mRet' = GameStateManager_validateState(json)
  /\ UNCHANGED <<mState, mStored, mFrom>>

\* The save the texts handed in are made from: the text kept, or the save
\* of a manager made without a state.
Kept == IF mStored.parses THEN mStored ELSE serialize(GameStateManager_new, SaveClock)

SaveNext ==
  \/ \E change \in Changes : StateSet(change)
  \/ StateInitialize
  \/ \E deltaTime \in SaveSteps : StateUpdate(deltaTime)
  \/ StateSerialize
  \/ mStored.parses /\ StateDeserialize(mStored, "stored")
  \/ StateDeserialize(Edited(Kept), "edited")
  \/ \E damage \in Damages : StateDeserialize(Damaged(Kept, damage), damage)
  \/ \E damage \in Damages : StateValidate(Damaged(Kept, damage), damage)
  \/ mStored.parses /\ StateValidate(mStored, "stored")

SpecSave == SaveInit /\ [][SaveNext]_vars

----------------------------------------------------------------------------
(* The input handler driven key event by key event *)

MaxKeyEvents == 3

\* The keys of the default bindings, and two keys that are not bound.
Keys == DOMAIN DEFAULT_KEY_BINDINGS \cup {"q", "Escape"}

GameActions ==
  {"moveForward", "moveBackward", "turnLeft", "turnRight", "fire", "interact"}

InputOnly ==
  /\ CollisionIdle /\ RayIdle /\ EnemyIdle /\ LoopIdle /\ GameIdle /\ PlayerIdle
  /\ TileIdle /\ FramesIdle /\ SaveIdle /\ SpriteIdle

InputInit == InputIdle /\ InputOnly

KeyEvent(op, key) ==
  /\ kEvents < MaxKeyEvents
  /\ kEvents' = kEvents + 1
  /\ kOp' = op /\ kKey' = key
  /\ UNCHANGED <<cvars, rvars, evars, lvars, gvars, pvars, tvars, fvars, mvars, vvars>>

\* A key goes down, or repeats while it is down.
KeyDown(key) ==
  /\ KeyEvent("keydown", key)
  /\ kHandler' = InputHandler_handleKeyDown(kHandler, key)
  /\ kHeld' = kHeld \cup {key}

\* A key that is down goes up.
KeyUp(key) ==
  /\ key \in kHeld
  /\ KeyEvent("keyup", key)
  /\ kHandler' = InputHandler_handleKeyUp(kHandler, key)
  /\ kHeld' = kHeld \ {key}

InputNext ==
  \/ \E key \in Keys : KeyDown(key)
  \/ \E key \in Keys : KeyUp(key)

SpecInput == InputInit /\ [][InputNext]_vars

----------------------------------------------------------------------------
(* The sprite projection, sprite by sprite *)

MaxSpriteEvents == 2

\* The player stands at the centre of a cell and faces along an axis or a
\* diagonal; sprites lie up to three cells away along each axis.
Eye == vec2(8500, 8500)
Facings == {0, 4500, FullTurn \div 4, HalfTurn, 31500}
SpriteCoords == {5500, 7000, 8450, 8500, 8550, 10000, 11500}

SpriteOnly ==
  /\ CollisionIdle /\ RayIdle /\ EnemyIdle /\ LoopIdle /\ GameIdle /\ PlayerIdle
  /\ TileIdle /\ FramesIdle /\ SaveIdle /\ InputIdle

SpriteInit ==
  /\ vRotation \in Facings
  /\ vSprite = NoSprite /\ vData = NoRenderData /\ vOp = "none" /\ vEvents = 0
  /\ SpriteOnly

SpriteEvent(op) ==
  /\ vEvents < MaxSpriteEvents
  /\ vEvents' = vEvents + 1
  /\ vOp' = op
  /\ UNCHANGED <<cvars, rvars, evars, lvars, gvars, pvars, tvars, fvars, mvars, kvars>>

\* renderSprites comes to a sprite.
Project(x, y) ==
  /\ vec2(x, y) # Eye
  /\ SpriteEvent("project")
  /\ vSprite' = [position |-> vec2(x, y), spriteId |-> "zombie", scale |-> Scale]
  /\ vData' = calculateSpriteRenderData(vSprite', Eye, vRotation, DEFAULT_RAYCAST_CONFIG)
  /\ UNCHANGED vRotation

\* The player has turned before the next frame, which projects the sprite
\* again.
Turn(rotation) ==
  /\ vOp = "project"
  /\ SpriteEvent("turn")
  /\ vRotation' = rotation
  /\ vData' = calculateSpriteRenderData(vSprite, Eye, rotation, DEFAULT_RAYCAST_CONFIG)
  /\ UNCHANGED vSprite

SpriteNext ==
  \/ \E x \in SpriteCoords, y \in SpriteCoords : Project(x, y)
  \/ \E rotation \in Facings : Turn(rotation)

SpecSprite == SpriteInit /\ [][SpriteNext]_vars

----------------------------------------------------------------------------
(* Claims about the collision system *)

CentreInWall(p, level) == isWall(p.x, p.y, level)

\* The circle at position overlaps a wall cell: some cell of the level or of
\* the ring of out-of-bounds cells around it is a wall whose unit square
\* has a point closer to the centre than radius (squared distances).
OverlapsWall(position, radius, level) ==
  \E gx \in -2 .. level.width + 1, gy \in -2 .. level.height + 1 :
    /\ isWall(gx * Scale, gy * Scale, level)
    /\ LET cx == Max(gx * Scale, Min(position.x, (gx + 1) * Scale))
           cy == Max(gy * Scale, Min(position.y, (gy + 1) * Scale))
       IN (position.x - cx) * (position.x - cx) + (position.y - cy) * (position.y - cy)
            < radius * radius

\* The direct check-and-resolve at the desired position still collides.
StillCollides(desired, radius, level) ==
  LET collision == checkWallCollision(desired, radius, level)
  IN /\ collision.collided
     /\ checkWallCollision(resolveWallCollision(desired, collision), radius, level).collided

\* C1 as stated: after any move, from any start position, the cell of the
\* returned position is not a wall.
C1_ResultNeverInWall == cVia # "none" => ~CentreInWall(cPos, TestLevels[cLevel])

\* C1 amended: a move that starts at a position whose cell is not a wall
\* returns a position whose cell is not a wall, so the property is kept
\* along a sequence of moves.
C1_FreeStartStaysFree ==
  [][~CentreInWall(cPos, TestLevels[cLevel]) => ~CentreInWall(cPos', TestLevels[cLevel])]_vars

\* A second move of a sequence collided and its result is outside the walls.
C1_Witness ==
  /\ cMoves = 2
  /\ cVia \in {"resolved", "xOnly", "yOnly", "stay"}
  /\ ~CentreInWall(cPos, TestLevels[cLevel])

\* C2: when check-and-resolve at the desired position still collides, the
\* result is the X-only candidate if that is wall-free, else the Y-only
\* candidate if that is wall-free, else the current position.
C2_SlidingOrder ==
  [][LET level == TestLevels[cLevel]
         xOnly == vec2(cTo'.x, cPos.y)
         yOnly == vec2(cPos.x, cTo'.y)
     IN StillCollides(cTo', cRadius, level) =>
          cPos' = IF ~OverlapsWall(xOnly, cRadius, level) THEN xOnly
                  ELSE IF ~OverlapsWall(yOnly, cRadius, level) THEN yOnly
                  ELSE cPos]_vars

\* A move slid along Y only, the X-only candidate being blocked.
C2_Witness == cVia = "yOnly" /\ cPos.y = cTo.y /\ cPos.x # cTo.x

\* C3: a circle that overlaps a wall cell is reported as collided.
C3_OverlapIsReported ==
  \A p \in {cTo, cPos} :
    OverlapsWall(p, cRadius, TestLevels[cLevel])
      => checkWallCollision(p, cRadius, TestLevels[cLevel]).collided

\* A desired position overlapped a wall and the move resolved it.
C3_Witness == cVia = "resolved" /\ OverlapsWall(cTo, cRadius, TestLevels[cLevel])

----------------------------------------------------------------------------
(* Claims about the enemies *)

LiveStates == {"idle", "pursuing", "attacking"}

\* C4: a damage d >= 0 leaves health at max(0, h - d); health never goes
\* up; health reaching 0 comes with the state dead; and a dead enemy stays dead with
\* health 0 under takeDamage, updateEnemy, EnemyManager.update and
\* EnemyManager.damageEnemy.
C4_DamageAndDeath ==
  [][\A i \in 1 .. Len(enemies) :
       LET e == enemies[i]
           f == enemies'[i]
       IN /\ (eOp' \in {"takeDamage", "damageEnemy"} /\ eArg'.id = e.id /\ eArg'.amount >= 0)
               => f.health = Max(0, e.health - eArg'.amount)
          /\ f.health <= e.health
          /\ (e.health > 0 /\ f.health = 0) => f.state = "dead"
          /\ e.state = "dead" => (f.state = "dead" /\ f.health = 0)]_vars

\* The order of a list turned around.
Reverse(seq) == [i \in 1 .. Len(seq) |-> seq[Len(seq) + 1 - i]]

\* An enemy was brought to health 0 and a later update of the manager left
\* it dead.
C4_Witness ==
  /\ eOp = "update"
  /\ \E i \in 1 .. Len(enemies) : enemies[i].state = "dead" /\ enemies[i].health = 0

\* The result of updating enemy i alone against the player and frame time
\* of the step, and its agreement with another result.
TickAlone(i) == updateEnemyWithAttack(enemies[i], ePlayer', Arena, eDt').enemy

SameOutcome(f, g) ==
  /\ f.position = g.position
  /\ f.rotation = g.rotation
  /\ f.health = g.health
  /\ f.state = g.state

\* The manager's result for enemy i is the same with the list in the
\* opposite order and with that enemy alone in the list.
OrderFree(i) ==
  /\ enemies'[i] = EnemyManager_update(<<enemies[i]>>, ePlayer', Arena, eDt').enemies[1]
  /\ enemies'[i] = EnemyManager_update(Reverse(enemies), ePlayer', Arena, eDt')
                     .enemies[Len(enemies) + 1 - i]

\* An enemy without health that is not in the state dead.
Spent(e) == e.health <= 0 /\ e.state # "dead"

\* C5 as stated: a tick of the whole collection (EnemyManager.update or
\* updateAllEnemies) gives each enemy the position, rotation, health and
\* state that updateEnemyWithAttack gives it alone against the same player
\* and level, whatever the other enemies and the order.
C5_Independence ==
  [][eOp' \in {"update", "updateAllEnemies"} =>
       \A i \in 1 .. Len(enemies) :
         /\ SameOutcome(enemies'[i], TickAlone(i))
         /\ eOp' = "update" => OrderFree(i)]_vars

\* C5 amended: the same, except that EnemyManager.update leaves an enemy
\* with health <= 0 that is not yet in the state dead as it is, where
\* updateEnemyWithAttack and updateAllEnemies turn its state to dead.
C5_IndependenceButSpent ==
  [][eOp' \in {"update", "updateAllEnemies"} =>
       \A i \in 1 .. Len(enemies) :
         /\ eOp' = "update" => OrderFree(i)
         /\ IF eOp' = "update" /\ Spent(enemies[i])
            THEN enemies'[i] = enemies[i]
            ELSE SameOutcome(enemies'[i], TickAlone(i))]_vars

\* The manager updated two enemies that both pursued the player and moved.
C5_Witness ==
  /\ eOp = "update"
  /\ Len(enemies) = 2
  /\ \A i \in 1 .. 2 :
       /\ enemies[i].state = "pursuing"
       /\ enemies[i].position # Arena.enemySpawns[i].position

\* C6: determineNextState is dead for a dead or health <= 0 enemy, else
\* attacking when the player is seen within attackRange, pursuing when seen
\* beyond it, idle when not seen, whatever the previous non-dead state.
C6_NextStateCases ==
  \A i \in 1 .. Len(enemies), p \in PlayerSpots :
    LET e == enemies[i]
        player == [position |-> p]
        sees == canSeePlayer(e, player, Arena)
        near == DistLE(e.position, p, e.attackRange)
        next == determineNextState(e, player, Arena)
    IN /\ next = IF e.state = "dead" \/ e.health <= 0 THEN "dead"
                 ELSE IF sees /\ near THEN "attacking"
                 ELSE IF sees THEN "pursuing"
                 ELSE "idle"
       /\ e.state # "dead" =>
            \A st \in LiveStates :
              determineNextState([e EXCEPT !.state = st], player, Arena) = next

\* One update left an enemy attacking and the other pursuing.
C6_Witness ==
  /\ eOp \in {"update", "updateAllEnemies"}
  /\ \E i, j \in 1 .. Len(enemies) :
       /\ enemies[i].state = "attacking"
       /\ DistLE(enemies[i].position, ePlayer.position, enemies[i].attackRange)
       /\ enemies[j].state = "pursuing"

\* The stretch of the segment from a to b that lies in a cell, on one axis:
\* the parameter (a fraction <<numerator, denominator>>) at which the
\* segment enters and leaves the cell's interval lo .. hi. On an axis along
\* which the segment does not advance the stretch is all or nothing.
AxisEnter(c0, d, lo, hi, inside) ==
  IF d > 0 THEN <<lo - c0, d>>
  ELSE IF d < 0 THEN <<c0 - hi, -d>>
  ELSE IF inside THEN <<-1, 1>> ELSE <<2, 1>>

AxisExit(c0, d, lo, hi, inside) ==
  IF d > 0 THEN <<hi - c0, d>>
  ELSE IF d < 0 THEN <<c0 - lo, -d>>
  ELSE IF inside THEN <<2, 1>> ELSE <<-1, 1>>

FracLT(p, q) == p[1] * q[2] < q[1] * p[2]
FracLE(p, q) == p[1] * q[2] <= q[1] * p[2]

\* The segment from a to b runs through the inside of cell (gx, gy).
CrossesCell(a, b, gx, gy) ==
  LET inX == gx * Scale < a.x /\ a.x < (gx + 1) * Scale
      inY == gy * Scale < a.y /\ a.y < (gy + 1) * Scale
      enters == {AxisEnter(a.x, b.x - a.x, gx * Scale, (gx + 1) * Scale, inX),
                 AxisEnter(a.y, b.y - a.y, gy * Scale, (gy + 1) * Scale, inY), <<0, 1>>}
      exits == {AxisExit(a.x, b.x - a.x, gx * Scale, (gx + 1) * Scale, inX),
                AxisExit(a.y, b.y - a.y, gy * Scale, (gy + 1) * Scale, inY), <<1, 1>>}
  IN \A en \in enters, ex \in exits : FracLT(en, ex)

\* The segment from a to b has a point in cell (gx, gy), border included.
TouchesCell(a, b, gx, gy) ==
  LET inX == gx * Scale <= a.x /\ a.x <= (gx + 1) * Scale
      inY == gy * Scale <= a.y /\ a.y <= (gy + 1) * Scale
      enters == {AxisEnter(a.x, b.x - a.x, gx * Scale, (gx + 1) * Scale, inX),
                 AxisEnter(a.y, b.y - a.y, gy * Scale, (gy + 1) * Scale, inY), <<0, 1>>}
      exits == {AxisExit(a.x, b.x - a.x, gx * Scale, (gx + 1) * Scale, inX),
                AxisExit(a.y, b.y - a.y, gy * Scale, (gy + 1) * Scale, inY), <<1, 1>>}
  IN \A en \in enters, ex \in exits : FracLE(en, ex)

\* The segment meets no wall cell at all, not even at a border point.
ClearOfWalls(a, b, level) ==
  \A gx \in -1 .. level.width, gy \in -1 .. level.height :
    isWall(gx * Scale, gy * Scale, level) => ~TouchesCell(a, b, gx, gy)

\* A wall cell that holds neither end of the segment is run through by it.
WallBetween(a, b, level) ==
  \E gx \in 0 .. level.width - 1, gy \in 0 .. level.height - 1 :
    /\ isWall(gx * Scale, gy * Scale, level)
    /\ CrossesCell(a, b, gx, gy)
    /\ <<gx, gy>> # <<Floor(a.x), Floor(a.y)>>
    /\ <<gx, gy>> # <<Floor(b.x), Floor(b.y)>>

\* C7 as stated: for a live enemy and a player within detectionRange,
\* canSeePlayer is true when the segment between them meets no wall cell
\* and false when a wall cell lies strictly between them on the segment.
C7_LineOfSight ==
  \A i \in 1 .. Len(enemies), p \in PlayerSpots :
    LET e == enemies[i]
        sees == canSeePlayer(e, [position |-> p], Arena)
    IN (~isDead(e) /\ DistLE(e.position, p, e.detectionRange)) =>
         /\ ClearOfWalls(e.position, p, Arena) => sees
         /\ WallBetween(e.position, p, Arena) => ~sees

\* C8: performAttack attacks only in state attacking with the player within
\* attackRange, then with the enemy's damage; in every other case, and for
\* a dead enemy, it reports no attack and damage 0.
C8_AttackOnlyInRange ==
  \A i \in 1 .. Len(enemies), p \in PlayerSpots :
    LET e == enemies[i]
        result == performAttack(e, [position |-> p])
        inCase == e.state = "attacking" /\ DistLE(e.position, p, e.attackRange)
    IN /\ result.attacked => (inCase /\ result.damage = e.damage)
       /\ ~inCase => result = [attacked |-> FALSE, damage |-> 0]
       /\ e.state = "dead" => result = [attacked |-> FALSE, damage |-> 0]

\* An update in which an enemy attacked the player, while another spot of
\* the player is out of that enemy's range.
C8_Witness ==
  /\ eOp = "update"
  /\ eRet > 0
  /\ \E i \in 1 .. Len(enemies), p \in PlayerSpots :
       /\ enemies[i].state = "attacking"
       /\ ~DistLE(enemies[i].position, p, enemies[i].attackRange)

\* C9 as stated: damageEnemy returns the enemy's pointValue when the damage
\* brings a live enemy's health to 0, and 0 when the enemy survives, is
\* already dead or does not exist.
C9_DefeatScore ==
  [][eOp' = "damageEnemy" =>
       LET index == FindIndex(enemies, eArg'.id)
       IN eRet' = IF /\ index # 0
                     /\ ~isDead(enemies[index])
                     /\ eArg'.amount >= 0
                     /\ enemies[index].health - eArg'.amount <= 0
                  THEN enemies[index].pointValue
                  ELSE 0]_vars

----------------------------------------------------------------------------
(* Claims about the raycaster *)

\* C10 as stated: every ray of the last frame, hit or not, has a distance
\* d with 0 < d <= maxRenderDistance.
C10_RayDistanceInRange ==
  \A i \in 1 .. Len(rays) :
    rays[i].distance > 0 /\ rays[i].distance <= rConfig.maxRenderDistance

\* The distance along the ray at which it enters its first wall cell (the
\* cells outside the grid are walls, so there always is one).
FirstWallDistance(origin, angle, levelMap) ==
  CastDDA(origin, angle, levelMap, Infinity).distance

\* C11 as stated: a ray with no wall cell within maxRenderDistance along it
\* has wallType 0 and a distance exactly equal to maxRenderDistance.
C11_OpenSpaceSentinel ==
  \A i \in 1 .. Len(rays) :
    FirstWallDistance(rPos, rays[i].angle, TestLevels[rLevel]) > rConfig.maxRenderDistance
      => rays[i].wallType = 0 /\ rays[i].distance = rConfig.maxRenderDistance

\* C12: castAllRays returns exactly screenWidth rays, and the ray of column
\* x (counted from 0, left to right) has the angle
\* playerRotation + (x / screenWidth - 0.5) * fov, whether it hit or not.
C12_OneRayPerColumn ==
  rOp = "castAllRays" =>
    /\ Len(rays) = rConfig.screenWidth
    /\ \A x \in 0 .. rConfig.screenWidth - 1 :
         2 * rConfig.screenWidth * (rays[x + 1].angle - rRot)
           = (2 * x - rConfig.screenWidth) * rConfig.fov

\* A frame of a turned player in which some rays hit a wall and others do not.
C12_Witness ==
  /\ rOp = "castAllRays"
  /\ rRot # 0
  /\ \E i, j \in 1 .. Len(rays) : rays[i].wallType = 0 /\ rays[j].wallType # 0

----------------------------------------------------------------------------
(* Claims about the game loop *)

\* C16 as stated: every deltaTime given to onUpdate is at least 0 and at
\* most 0.1 s, and the first update after any call of start() or resume()
\* is given 0.
C16_DeltaAfterAnyCall ==
  (lOp = "frame" /\ lCalls # <<>>)
    => /\ 0 <= lDelta /\ lDelta <= MAX_DELTA_TIME
       /\ lFirst \in {"call", "reset"} => lDelta = 0

\* C16, amended: every deltaTime given to onUpdate is at least 0 and at
\* most 0.1 s, and the first update after a start() on a loop that was not
\* running, or after a resume() on a running loop, is given 0.
C16_DeltaAfterReset ==
  (lOp = "frame" /\ lCalls # <<>>)
    => /\ 0 <= lDelta /\ lDelta <= MAX_DELTA_TIME
       /\ lFirst = "reset" => lDelta = 0

\* The loop was resumed after a frame, and the update of the next frame,
\* a quarter of a second later, was given 0.
C16_Witness ==
  /\ lOp = "frame" /\ lCalls # <<>> /\ lFirst = "reset"
  /\ lLoop.frameCount >= 2 /\ lStep = 250 /\ lDelta = 0

\* C17: between a pause() on a running loop and the next resume() or
\* stop(), a frame request is always pending and a frame invokes neither
\* onUpdate nor onRender; pause() and resume() on a loop that is not
\* running leave every field of the loop as it was.
C17_PausedLoop ==
  [][/\ lHeld' => lLoop'.animationFrameId # 0
     /\ (lHeld /\ lOp' = "frame") => lCalls' = <<>>
     /\ (lOp' \in {"pause", "resume"} /\ ~lLoop.isRunning) => lLoop' = lLoop]_vars

\* A frame ran on a paused loop.
C17_Witness ==
  lHeld /\ lOp = "frame" /\ lLoop.frameCount >= 1 /\ lCalls = <<>>

----------------------------------------------------------------------------
(* Claims about the game's frame update *)

\* The position at which the update of the frame just run left the player,
\* after its movement and collision resolution.
FrameResolved ==
  moveWithCollision(game.player.position, gDesired', PLAYER_RADIUS, levelMapOf(game))

\* The update of the frame just run found the player at the exit point of
\* the level it was played in.
FoundAtExit ==
  /\ gOp' = "frame" /\ gCalls' # <<>> /\ game.status = "playing"
  /\ isAtExitPoint(FrameResolved, levelMapOf(game))

\* C13: when a frame update finds the player at the exit point of a level
\* that is not the last, then after the update the current level is the
\* next one, the player's position is that level's playerSpawn, and the
\* player's score is the score held before.
C13_ExitLoadsNextLevel ==
  [][(FoundAtExit /\ game.currentLevel + 1 < Len(GAME_LEVELS))
       => /\ game'.currentLevel = game.currentLevel + 1
          /\ game'.player.position = GAME_LEVELS[game.currentLevel + 2].playerSpawn
          /\ game'.player.stats.score = game.player.stats.score]_vars

\* C14: whenever a frame update ends with the player's health at 0, the
\* status is gameOver and the loop is paused.
C14_DeathEndsGame ==
  (gOp = "frame" /\ gCalls # <<>> /\ game.player.stats.health = 0)
    => game.status = "gameOver" /\ game.gameLoop.isPaused

\* C15: in a frame that draws, onUpdate has run before onRender, and the
\* pose given to the renderer, from which the rays are cast, is the pose
\* the update of that frame ended with, its position resolved against the
\* walls.
C15_RenderAfterUpdate ==
  [][(gOp' = "frame" /\ gRender'.drawn)
       => /\ gCalls' = <<"onUpdate", "onRender">>
          /\ gRender'.player = game'.player
          /\ gRender'.player.position = FrameResolved]_vars

\* A frame drew the player where collision resolution had put them, which
\* was not where the movement keys would have.
C15_Witness ==
  /\ gOp = "frame" /\ gRender.drawn /\ gCalls = <<"onUpdate", "onRender">>
  /\ gRender.player.position # gDesired
  /\ checkWallCollision(gDesired, PLAYER_RADIUS, GAME_LEVELS[gRender.currentLevel + 1]).collided

----------------------------------------------------------------------------
(* Claims about health and ammunition *)

\* C19: a negative amount passed to the enemy's takeDamage, to the
\* player's takeDamage or to the player's heal is ignored: the entity
\* returned equals the entity passed in, in every field.
C19_NegativeAmountIgnored ==
  [][/\ (pOp' \in {"takeDamage", "heal"} /\ pArg' < 0) => pPlayer' = pPlayer
     /\ (pOp' = "enemyTakeDamage" /\ pArg' < 0) => pFoe' = pFoe]_vars

\* A hurt player was healed by a negative amount, after a living enemy
\* that had lost health was damaged by a negative amount.
C19_Witness ==
  /\ pOp = "heal" /\ pArg < 0 /\ pSteps = MaxOps
  /\ pPlayer.stats.health < pPlayer.stats.maxHealth
  /\ pFoe.health < pFoe.maxHealth /\ pFoe.state # "dead"

\* C20: from createPlayer and after any sequence of takeDamage, heal, fire
\* and addAmmunition calls, the health is within [0, maxHealth] and the
\* ammunition within [0, maxAmmunition]; fire with less ammunition than
\* the weapon's ammoCost fails and leaves the ammunition as it was, and
\* otherwise succeeds and takes exactly ammoCost from it.
C20_StatsInRange ==
  [][/\ 0 <= pPlayer'.stats.health /\ pPlayer'.stats.health <= pPlayer'.stats.maxHealth
     /\ 0 <= pPlayer'.stats.ammunition
     /\ pPlayer'.stats.ammunition <= pPlayer'.stats.maxAmmunition
     /\ pOp' = "fire" =>
          IF pPlayer.stats.ammunition < pPlayer.currentWeapon.ammoCost
          THEN ~pRet' /\ pPlayer'.stats.ammunition = pPlayer.stats.ammunition
          ELSE /\ pRet'
               /\ pPlayer'.stats.ammunition
                    = pPlayer.stats.ammunition - pPlayer.currentWeapon.ammoCost]_vars

\* The last round was fired, the player took more damage than the health
\* left, and the next fire failed.
C20_Witness ==
  /\ pOp = "fire" /\ ~pRet /\ pSteps = MaxOps
  /\ pPlayer.stats.ammunition = 0 /\ pPlayer.stats.health = 0

----------------------------------------------------------------------------
(* Claims about coordinates outside the grid *)

\* The coordinate asked about lies outside [0, width) x [0, height).
AskedOutside ==
  /\ tOut.asked
  /\ \/ tX < 0 \/ tX >= TileLevels[tLevel].width * Scale
     \/ tY < 0 \/ tY >= TileLevels[tLevel].height * Scale

\* C18: for every coordinate outside the grid, the collision system's
\* isWall, the level module's isWall and the raycaster's isWallTile report
\* a wall, and getTile returns wall type 1.
C18_OutsideIsWallTypeOne ==
  AskedOutside
    => /\ tOut.isWall /\ tOut.levelIsWall /\ tOut.isWallTile
       /\ tOut.getTile = 1 /\ tOut.levelGetTile = 1

\* C18, amended: for every coordinate outside the grid the three wall
\* queries report a wall; the collision system's getTile and the
\* raycaster's getTileValue return wall type 1, and the level module's
\* getTile returns -1.
C18_OutsideIsWall ==
  AskedOutside
    => /\ tOut.isWall /\ tOut.levelIsWall /\ tOut.isWallTile
       /\ tOut.getTile = 1 /\ tOut.getTileValue = 1
       /\ tOut.levelGetTile = -1

\* A coordinate past the east edge and above the north edge of the
\* laboratory was asked about.
C18_Witness ==
  /\ AskedOutside /\ TileLevels[tLevel] = LEVEL_LAB
  /\ tX >= LEVEL_LAB.width * Scale /\ tY < 0
  /\ tOut.levelIsWall /\ tOut.levelGetTile = -1

----------------------------------------------------------------------------
(* Claims about item collection *)

\* collectItem has just taken an item of the type.
Collected(type) == pOp' = "collectItem" /\ pRet' /\ pItem'.type = type

----------------------------------------------------------------------------
(* Claims about dead and attacking enemies *)

\* The pose and condition of an enemy.
Frozen(before, after) ==
  /\ after.position = before.position /\ after.rotation = before.rotation
  /\ after.health = before.health /\ after.state = before.state

\* C24: an enemy in state dead is frozen: EnemyManager.update, updateEnemy
\* and moveTowardPlayer leave its position, rotation, health and state as
\* they were, for any player and deltaTime, and the total damage of
\* EnemyManager.update is what it is without the dead enemies.
C24_DeadIsFrozen ==
  \A p \in PlayerSpots, deltaTime \in DeltaTimes \cup {0, 100} :
    LET player == [position |-> p]
        result == EnemyManager_update(enemies, player, Arena, deltaTime)
        living == SelectSeq(enemies, LAMBDA e : e.state # "dead")
    IN /\ \A i \in 1 .. Len(enemies) :
            enemies[i].state = "dead" =>
              /\ Frozen(enemies[i], result.enemies[i])
              /\ Frozen(enemies[i], updateEnemy(enemies[i], player, Arena, deltaTime))
              /\ Frozen(enemies[i], moveTowardPlayer(enemies[i], player, deltaTime, Arena))
              /\ ~updateEnemyWithAttack(enemies[i], player, Arena, deltaTime).attack.attacked
       /\ result.totalDamageToPlayer
            = EnemyManager_update(living, player, Arena, deltaTime).totalDamageToPlayer

\* The manager was updated with a dead enemy within its attack range of
\* the player, and only the living enemy did damage.
C24_Witness ==
  /\ eOp = "update"
  /\ eRet = DEFAULT_ENEMY_CONFIG.damage
  /\ \E i \in 1 .. Len(enemies) :
       /\ enemies[i].state = "dead"
       /\ DistLE(enemies[i].position, ePlayer.position, enemies[i].attackRange)
       /\ enemies[i].position # ePlayer.position

----------------------------------------------------------------------------
(* Claims about the position a move returns *)

\* C30: the position moveWithCollision returns is the current position it
\* was given, or a position at which checkWallCollision with the same
\* radius reports no collision and the circle overlaps no wall.
C30_ReturnedOrClear ==
  [][\/ cPos' = cPos
     \/ /\ ~checkWallCollision(cPos', cRadius, TestLevels[cLevel]).collided
        /\ ~OverlapsWall(cPos', cRadius, TestLevels[cLevel])]_vars

\* A move whose desired position and resolved position both collided slid
\* along X to a position clear of walls.
C30_Witness ==
  /\ cVia = "xOnly" /\ cPos.x = cTo.x /\ cPos.y # cTo.y
  /\ OverlapsWall(cTo, cRadius, TestLevels[cLevel])
  /\ ~OverlapsWall(cPos, cRadius, TestLevels[cLevel])

----------------------------------------------------------------------------
(* Claims about the frame requests *)

\* C27: whatever the interleaving of start, stop, pause and resume calls
\* with the frames, calls from inside onUpdate and onRender included, at
\* most one frame request is pending, none is pending after stop(), and
\* neither onUpdate nor onRender is invoked between a stop() and the next
\* start().
C27_OneFrameNoneAfterStop ==
  /\ Cardinality(fFrames.pending) <= 1
  /\ fOp = "stop" => fFrames.pending = {}
  /\ fOp \in {"onUpdate", "onRender"} => ~fStopped

----------------------------------------------------------------------------
(* Claims about saving and restoring *)

\* The last call was deserialize with the text the last serialize returned.
RoundTrip == mOp = "deserialize" /\ mGiven = "stored"

C23_InvalidLeavesState ==
  (mOp = "deserialize" /\ ~GameStateManager_validateState(mIn)) =>
    /\ deserialize(mIn, mBefore).isNull
    /\ ~mRet
    /\ mState = mBefore

\* A save with one property damaged is handed to a manager whose game has
\* gone on since the save.
C23_Witness ==
  /\ mOp = "deserialize" /\ mIn.parses /\ ~validateSaveData(mIn.value)
  /\ isObject(mIn.value)
  /\ mStored.parses /\ mBefore # mFrom /\ mBefore # GameStateManager_new
  /\ mState = mBefore

----------------------------------------------------------------------------
(* Claims about the menu and the loop *)

\* C26: whenever the game status is playing, the game loop is running and
\* is not paused.
C26_PlayingMeansRunning ==
  game.status = "playing" => game.gameLoop.isRunning /\ ~game.gameLoop.isPaused

----------------------------------------------------------------------------
(* Claims about the keys *)

\* C29: an action is reported active exactly when at least one key bound
\* to it is held down.
C29_ActiveIffKeyHeld ==
  \A action \in GameActions :
    InputHandler_isActionActive(kHandler, action)
      <=> \E key \in kHeld \cap DOMAIN DEFAULT_KEY_BINDINGS :
            DEFAULT_KEY_BINDINGS[key] = action

----------------------------------------------------------------------------
(* Claims about the sprite projection *)

\* The components of the sprite's offset along the player's facing
\* direction (cos rotation, sin rotation) and across it.
Forward ==
  RDiv((vSprite.position.x - Eye.x) * Cos(vRotation)
       + (vSprite.position.y - Eye.y) * Sin(vRotation), Scale)
Lateral ==
  RDiv((vSprite.position.y - Eye.y) * Cos(vRotation)
       - (vSprite.position.x - Eye.x) * Sin(vRotation), Scale)

\* C25: the projection divides by the forward component of the sprite's
\* offset; a sprite whose forward component is at most the threshold is
\* left out, and a sprite straight ahead is drawn at screenWidth / 2.
C25_DividesByForward ==
  vOp # "none" =>
    /\ Forward <= 50 => vData.isNull
    /\ ~vData.isNull => vData.distance = Forward
    /\ (Lateral = 0 /\ Forward > 50) =>
         /\ ~vData.isNull
         /\ vData.screenX = (DEFAULT_RAYCAST_CONFIG.screenWidth * Scale) \div 2

====
